---------------------------- MODULE Spec2Model ----------------------------
(***************************************************************************)
(* crystallize-cli: the installation pipeline (Installer.Install), its     *)
(* deferred cleanup, and the partition / mount engine (partition.Partition)*)
(*                                                                         *)
(* Strings the code inspects character by character (device paths, mount   *)
(* points, filesystem names) are sequences of one-character strings.       *)
(* External commands are steps with a nondeterministic exit status.        *)
(***************************************************************************)
EXTENDS Integers, Sequences, FiniteSets, TLC

(***************************************************************************)
(* Bounds                                                                  *)
(***************************************************************************)
\* exit statuses 1..MaxExit are the non-zero statuses a command may return
MaxExit == 2
\* longest list of manual partition specs
MaxParts == 2
\* most lines a command writes to one of its output pipes
MaxLines == 2

(***************************************************************************)
(* Character-sequence helpers                                              *)
(***************************************************************************)
Digits == {"0", "1", "2", "3", "4", "5", "6", "7", "8", "9"}

\* strings.Contains(s, sub)
Contains(s, sub) ==
    \E i \in 0..(Len(s) - Len(sub)) : SubSeq(s, i + 1, i + Len(sub)) = sub

\* strings.LastIndex(s, c) for a one-character c, 1-based; 0 when absent
LastIndex(s, c) ==
    IF \E i \in 1..Len(s) : s[i] = c
    THEN CHOOSE i \in 1..Len(s) : s[i] = c /\ \A j \in (i + 1)..Len(s) : s[j] # c
    ELSE 0

AllDigits(s) == \A i \in 1..Len(s) : s[i] \in Digits

\* strings.HasPrefix(s, p)
HasPrefix(s, p) == Len(s) >= Len(p) /\ SubSeq(s, 1, Len(p)) = p

(***************************************************************************)
(* Paths and devices used as inputs                                        *)
(***************************************************************************)
EMPTY == << >>
DEV == <<"/", "d", "e", "v", "/">>
MNT == <<"/", "m", "n", "t">>
BOOT == <<"/", "b", "o", "o", "t">>
MNT_BOOT == MNT \o BOOT
MNT_HOME == MNT \o <<"/", "h", "o", "m", "e">>
MNT_PROC == MNT \o <<"/", "p", "r", "o", "c">>
MNT_SYS == MNT \o <<"/", "s", "y", "s">>
MNT_DEV == MNT \o <<"/", "d", "e", "v">>
MNT_DEV_PTS == MNT_DEV \o <<"/", "p", "t", "s">>

SDA == DEV \o <<"s", "d", "a">>
SDA1 == SDA \o <<"1">>
SDA2 == SDA \o <<"2">>
NVME == DEV \o <<"n", "v", "m", "e", "0", "n", "1">>
NVMEP1 == NVME \o <<"p", "1">>
NVMEP2 == NVME \o <<"p", "2">>
\* a device-mapper name: contains "nvme", its last 'p' is inside "mapper"
MAPPER == DEV \o <<"m", "a", "p", "p", "e", "r", "/", "n", "v", "m", "e">>

(***************************************************************************)
(* partition.go: DeviceParser                                              *)
(***************************************************************************)
isSpecialDevice(device) ==
    Contains(device, <<"n", "v", "m", "e">>)
        \/ Contains(device, <<"m", "m", "c", "b", "l", "k">>)

getPartitionSeparator(device) ==
    IF isSpecialDevice(device) THEN <<"p">> ELSE EMPTY

\* fmt.Sprintf("%d", n) for the partition numbers in use
RECURSIVE Itoa(_)
Itoa(n) ==
    IF n < 10 THEN <<CHOOSE d \in Digits : d = ToString(n)>>
    ELSE Itoa(n \div 10) \o <<CHOOSE d \in Digits : d = ToString(n % 10)>>

\* GetPartitionNames for one number
PartitionName(device, num) == device \o getPartitionSeparator(device) \o Itoa(num)

GetPartitionNames(device, nums) ==
    [i \in DOMAIN nums |-> PartitionName(device, nums[i])]

parseSpecialDeviceWhole(blockdevice) == [device |-> blockdevice, partition |-> <<"1">>]
parseSpecialDevice(blockdevice) ==
    LET idx == LastIndex(blockdevice, "p") IN
    IF idx # 0
    THEN [device |-> SubSeq(blockdevice, 1, idx - 1),
          partition |-> SubSeq(blockdevice, idx + 1, Len(blockdevice))]
    ELSE [device |-> blockdevice, partition |-> <<"1">>]

\* a greedy first group: only the last digit is the partition number
parseStandardDeviceGreedy(blockdevice) ==
    LET n == Len(blockdevice) IN
    IF n > 1 /\ blockdevice[n] \in Digits
    THEN [device |-> SubSeq(blockdevice, 1, n - 1), partition |-> <<blockdevice[n]>>]
    ELSE [device |-> blockdevice, partition |-> <<"1">>]

\* partitionRegex ^(.+?)(\d+)$ : the shortest non-empty prefix whose rest is
\* a non-empty run of digits reaching the end
parseStandardDevice(blockdevice) ==
    LET n == Len(blockdevice)
        Cuts == {i \in 1..(n - 1) : AllDigits(SubSeq(blockdevice, i + 1, n))}
    IN  IF Cuts # {}
        THEN LET i == CHOOSE c \in Cuts : \A d \in Cuts : c <= d
             IN  [device |-> SubSeq(blockdevice, 1, i),
                  partition |-> SubSeq(blockdevice, i + 1, n)]
        ELSE [device |-> blockdevice, partition |-> <<"1">>]

Parse(blockdevice) ==
    IF isSpecialDevice(blockdevice)
    THEN parseSpecialDevice(blockdevice)
    ELSE parseStandardDevice(blockdevice)

\* strconv.Atoi succeeds: an optional sign followed by at least one digit
isValidPartitionNumber(partitionNum) ==
    LET body == IF Len(partitionNum) > 0 /\ partitionNum[1] \in {"+", "-"}
                THEN Tail(partitionNum) ELSE partitionNum
    IN  Len(body) > 0 /\ AllDigits(body)

\* strconv.Atoi on a string it accepts (values far below the int range)
RECURSIVE Atoi(_)
Atoi(s) ==
    CASE s = EMPTY -> 0
      [] s[1] = "+" -> Atoi(Tail(s))
      [] s[1] = "-" -> 0 - Atoi(Tail(s))
      [] OTHER -> 10 * Atoi(SubSeq(s, 1, Len(s) - 1))
                    + (CHOOSE d \in 0..9 : ToString(d) = s[Len(s)])

(***************************************************************************)
(* partition.go: FilesystemType and ParseFilesystem                        *)
(***************************************************************************)
UpperCase == <<"A", "B", "C", "D", "E", "F", "G", "H", "I", "J", "K", "L", "M",
               "N", "O", "P", "Q", "R", "S", "T", "U", "V", "W", "X", "Y", "Z">>
LowerCase == <<"a", "b", "c", "d", "e", "f", "g", "h", "i", "j", "k", "l", "m",
               "n", "o", "p", "q", "r", "s", "t", "u", "v", "w", "x", "y", "z">>

\* the ASCII white space of strings.TrimSpace and of the regexp class \s
WhiteSpace == {" ", "\t", "\n", "\r", "\f"}

ToLowerChar(c) ==
    IF \E i \in 1..26 : UpperCase[i] = c
    THEN LowerCase[CHOOSE i \in 1..26 : UpperCase[i] = c]
    ELSE c

\* strings.ToLower
ToLower(s) == [i \in 1..Len(s) |-> ToLowerChar(s[i])]

\* strings.TrimSpace
TrimSpace(s) ==
    LET Keep == {i \in 1..Len(s) : s[i] \notin WhiteSpace} IN
    IF Keep = {} THEN EMPTY
    ELSE SubSeq(s, CHOOSE i \in Keep : \A j \in Keep : i <= j,
                   CHOOSE i \in Keep : \A j \in Keep : i >= j)

W_ext4 == <<"e", "x", "t", "4">>
W_fat32 == <<"f", "a", "t", "3", "2">>
W_btrfs == <<"b", "t", "r", "f", "s">>
W_xfs == <<"x", "f", "s">>
W_noformat == <<"n", "o", "f", "o", "r", "m", "a", "t">>
W_no_dash_format == <<"n", "o", "-", "f", "o", "r", "m", "a", "t">>
W_no_format == <<"n", "o", " ", "f", "o", "r", "m", "a", "t">>
W_dont_format == <<"d", "o", "n", "'", "t", " ", "f", "o", "r", "m", "a", "t">>
W_Do_Not_Format == <<"D", "o", " ", "N", "o", "t", " ", "F", "o", "r", "m", "a", "t">>
W_skip_formatting == <<"s", "k", "i", "p", " ", "f", "o", "r", "m", "a", "t", "t", "i", "n", "g">>
W_none == <<"n", "o", "n", "e">>
W_swap == <<"s", "w", "a", "p">>
W_EXT4_padded == <<" ", "E", "X", "T", "4", " ">>

W_format == <<"f", "o", "r", "m", "a", "t">>
W_fmt == <<"f", "m", "t">>
W_don == <<"d", "o", "n">>
W_do == <<"d", "o">>
W_not == <<"n", "o", "t">>
W_no == <<"n", "o">>
W_skip == <<"s", "k", "i", "p">>

\* filesystemMap
filesystemMap ==
    [k \in {W_ext4, W_fat32, W_btrfs, W_xfs, W_noformat, W_no_dash_format,
            W_no_format, W_dont_format} |->
        CASE k = W_ext4 -> "Ext4"
          [] k = W_fat32 -> "Fat32"
          [] k = W_btrfs -> "Btrfs"
          [] k = W_xfs -> "Xfs"
          [] OTHER -> "NoFormat"]

\* filesystemCommands
filesystemCommands == [Ext4 |-> "mkfs.ext4", Fat32 |-> "mkfs.fat",
                       Btrfs |-> "mkfs.btrfs", Xfs |-> "mkfs.xfs"]

\* the first group of noFormatRegex: don'?t | do\s*not | no | skip | none
MatchesNoFormatHead(h) ==
    \/ h \in {<<"d", "o", "n", "'", "t">>, <<"d", "o", "n", "t">>, W_no, W_skip, W_none}
    \/ /\ Len(h) >= 5
       /\ SubSeq(h, 1, 2) = W_do
       /\ SubSeq(h, Len(h) - 2, Len(h)) = W_not
       /\ \A i \in 3..(Len(h) - 3) : h[i] \in WhiteSpace

\* noFormatRegex.MatchString on an already lower-cased input:
\* ^(don'?t|do\s*not|no|skip|none)[\s\-_]*(format|fmt)?$
noFormatRegexMatch(input) ==
    \E i \in 0..Len(input) : \E j \in i..Len(input) :
        /\ MatchesNoFormatHead(SubSeq(input, 1, i))
        /\ \A k \in (i + 1)..j : input[k] \in WhiteSpace \cup {"-", "_"}
        /\ SubSeq(input, j + 1, Len(input)) \in {EMPTY, W_format, W_fmt}

containsAllKeywords(input, keywords) ==
    \A k \in 1..Len(keywords) : Contains(input, keywords[k])

containsNoFormatKeywords(input) ==
    \E keywords \in {<<W_don, W_format>>, <<W_do, W_not, W_format>>,
                     <<W_skip, W_format>>, <<W_no, W_format>>} :
        containsAllKeywords(input, keywords)

isNoFormatVariationRegexOnly(input) == noFormatRegexMatch(input)
isNoFormatVariation(input) ==
    noFormatRegexMatch(input) \/ containsNoFormatKeywords(input)

\* unrecognised strings classified NoFormat instead
ParseFilesystemDefaultNoFormat(fs) ==
    IF fs = EMPTY THEN "Ext4"
    ELSE LET normalized == TrimSpace(ToLower(fs)) IN
         IF normalized \in DOMAIN filesystemMap THEN filesystemMap[normalized]
         ELSE "NoFormat"

ParseFilesystem(fs) ==
    IF fs = EMPTY THEN "Ext4"
    ELSE LET normalized == TrimSpace(ToLower(fs)) IN
         IF normalized \in DOMAIN filesystemMap THEN filesystemMap[normalized]
         ELSE IF isNoFormatVariation(normalized) THEN "NoFormat"
         ELSE "Ext4"

NeedsFormatting(fsType) == fsType # "NoFormat"


(***************************************************************************)
(* State                                                                   *)
(***************************************************************************)
VARIABLES
    cfg,          \* the loaded Config
    exists,       \* device nodes present (utils.Exists)
    scope,        \* "install": a whole run; otherwise the function called
    pc,           \* position of the thread of control
    idx,          \* index of the current stage in buildStages()
    sp,           \* position inside the current stage
    cancelled,    \* ctx.Done() is closed
    mountPoints,  \* Installer.mountPoints
    mounted,      \* mount points currently mounted (kernel state)
    cmds,         \* external commands issued so far, in order
    started,      \* stages whose Execute was called, in order
    finished,     \* stages whose Execute returned, in order
    cancelAt,     \* where the thread of control was when ctx was cancelled
    warned,       \* warnings logged
    result,       \* what Install (or Partition) returned
    fatal,        \* the failed operation that ended the run
    exitCode,     \* exit status of the process, NoExit while it runs
    cleanupIdx,   \* loop index of Installer.cleanup
    cleanupErr,   \* err of the normal umount inside unmountPoint
    prog,         \* the steps of the stage being executed
    arg,          \* the input of a function that is called on its own
    ret           \* the frame of that call and what it returned

vars == <<cfg, exists, scope, pc, idx, sp, cancelled, mountPoints, mounted,
          cmds, started, finished, cancelAt, warned, result, fatal,
          exitCode, cleanupIdx, cleanupErr, prog, arg, ret>>

NoExit == -1
\* exec.ExitError.ExitCode() of a process killed by a signal
Signalled == -1
\* cmd.Run() failed without an exit status (binary missing): not an ExitError
NotStarted == -2

\* what cmd.Run() can yield: 0, an exit status, a signal, or no ExitError
Outcomes == (0..MaxExit) \cup {Signalled, NotStarted}
Failures == Outcomes \ {0}

NoFail == [cmd |-> "", flag |-> "", dev |-> EMPTY, mp |-> EMPTY, rc |-> 0,
           how |-> "none", stage |-> 0]
NoCancel == [pc |-> "none", idx |-> 0]
NoRet == [fn |-> "none"]
NoResult == [kind |-> "none", stage |-> "", names |-> {}, msg |-> ""]

(***************************************************************************)
(* Steps: the operations a stage performs, in program order.               *)
(*   exec   an external command (utils.Exec / ExecChroot / Install)        *)
(*   file   a file-system operation of the installer process itself        *)
(*   return an error return that needs no command to fail                  *)
(*   warn   utils.LogWarn                                                  *)
(*   record append to Installer.mountPoints                                *)
(*   sleep  time.Sleep                                                     *)
(* on: what a failure of the step does                                     *)
(*   ign    ignored (or only logged)                                       *)
(*   eval   utils.ExecEval: Crash with the command's exit code             *)
(*   feval  utils.FilesEval / Crash(..., 1)                                *)
(*   ret    the stage returns the error                                    *)
(*   retnil the stage logs and returns nil                                 *)
(*   probe  the exit status selects whether the next step runs             *)
(***************************************************************************)
Step(k, cmd, flag, dev, num, mp, on, names) ==
    [k |-> k, cmd |-> cmd, flag |-> flag, dev |-> dev, num |-> num, mp |-> mp,
     on |-> on, names |-> names]

Exec(cmd, flag, dev, mp, on) == Step("exec", cmd, flag, dev, EMPTY, mp, on, {})
FileOp(cmd, mp, on) == Step("file", cmd, "", EMPTY, EMPTY, mp, on, {})
Return(msg, names) == Step("return", msg, "", EMPTY, EMPTY, EMPTY, "ret", names)
Warn(msg, dev) == Step("warn", msg, "", dev, EMPTY, EMPTY, "ign", {})
Record(mp) == Step("record", "", "", EMPTY, EMPTY, mp, "ign", {})
Sleep(what) == Step("sleep", what, "", EMPTY, EMPTY, EMPTY, "ign", {})

\* fmt.Errorf("...%s: %w", name, err): the returned error also names `name`
WrapNames(steps, name) ==
    [i \in DOMAIN steps |->
        IF steps[i].k = "return" \/ steps[i].on = "ret"
        THEN [steps[i] EXCEPT !.names = @ \cup {name}]
        ELSE steps[i]]

\* utils.Exists on a device node
Exists(path) == path \in exists

(***************************************************************************)
(* partition.go: BootFlagManager                                           *)
(***************************************************************************)
getFlag(efi) == IF efi THEN "esp" ELSE "boot"

\* BootFlagManager.validate: "" when valid, else the error
validate(device, partitionNum) ==
    IF partitionNum = EMPTY \/ ~isValidPartitionNumber(partitionNum)
    THEN "invalid partition number"
    ELSE IF ~Exists(device) THEN "device does not exist"
    ELSE ""

\* BootFlagManager.Set: the error it returns and the steps it performs
Set(blockdevice, efi) ==
    LET p == Parse(blockdevice)
        err == validate(p.device, p.partition)
    IN  [err |-> err,
         steps |-> IF err # "" THEN << >>
                   ELSE <<Step("exec", "parted", getFlag(efi), p.device,
                               p.partition, EMPTY, "eval", {})>>]

\* BootFlagManager.TrySet: an error of Set becomes a warning
TrySet(blockdevice, efi) ==
    LET s == Set(blockdevice, efi) IN
    IF s.err # "" THEN <<Warn("Failed to set boot flags", blockdevice)>>
    ELSE s.steps

(***************************************************************************)
(* partition.go: PartitionTable                                            *)
(***************************************************************************)
\* a table creation that ignores the outcome of parted
executeCommandsIgnoring(device, subcommands) ==
    [i \in DOMAIN subcommands |->
        Exec("parted", subcommands[i], device, EMPTY, "ign")]
executeCommands(device, subcommands) ==
    [i \in DOMAIN subcommands |->
        Exec("parted", subcommands[i], device, EMPTY, "eval")]

createGPT(device) ==
    executeCommands(device, <<"mklabel gpt", "mkpart ESP fat32 1MiB 513MiB",
                              "mkpart root ext4 513MiB 100%">>)

createMBR(device) ==
    executeCommands(device, <<"mklabel msdos", "mkpart primary ext4 1MiB 513MiB",
                              "mkpart primary ext4 513MiB 100%">>)

Create(device, efi) ==
    <<Exec("umount", "", device, EMPTY, "ign")>>
        \o (IF efi THEN createGPT(device) ELSE createMBR(device))

(***************************************************************************)
(* partition.go: MountManager                                              *)
(***************************************************************************)
cleanupMounts == <<MNT_BOOT, MNT_DEV, MNT_PROC, MNT_SYS, MNT>>

CleanupAll ==
    [i \in DOMAIN cleanupMounts |-> Exec("umount", "-R", EMPTY, cleanupMounts[i], "ign")]

\* Exists check and CreateDirectory; a failure to create is Crash(..., 1)
EnsureExists(mountpoint) == <<FileOp("mkdir", mountpoint, "feval")>>

\* IsMounted (mountpoint -q) and, only when mounted, umount
UnmountIfMounted(mountpoint) ==
    <<Exec("mountpoint", "-q", EMPTY, mountpoint, "probe"),
      Exec("umount", "", EMPTY, mountpoint, "ign")>>

(***************************************************************************)
(* partition.go: FilesystemFormatter                                       *)
(***************************************************************************)
\* a formatter without the NoFormat case
FormatUnconditional(blockdevice, fsType) ==
    <<Exec("mkfs.ext4", fsType, blockdevice, EMPTY, "eval")>>

Format(blockdevice, fsType) ==
    IF ~NeedsFormatting(fsType) THEN << >>
    ELSE <<Exec(filesystemCommands[fsType], fsType, blockdevice, EMPTY, "eval")>>

\* a formatter that always chooses ext4
determineFilesystemExt4(isBoot, efi) == "Ext4"
determineFilesystem(isBoot, efi) == IF isBoot /\ efi THEN "Fat32" ELSE "Ext4"

FormatAutoPartition(partition, isBoot, efi) ==
    <<Exec("umount", "", partition, EMPTY, "ign")>>
        \o Format(partition, determineFilesystem(isBoot, efi))

(***************************************************************************)
(* partition.go: Mount                                                     *)
(***************************************************************************)
Mount(partition, mountpoint) ==
    IF partition = EMPTY THEN <<Return("partition cannot be empty", {})>>
    ELSE IF mountpoint = EMPTY THEN <<Return("mountpoint cannot be empty", {})>>
    ELSE EnsureExists(mountpoint) \o UnmountIfMounted(mountpoint)
            \o <<Exec("mount", "", partition, mountpoint, "eval")>>


(***************************************************************************)
(* partition.go: Partitioner                                               *)
(***************************************************************************)
NewPartition(mountpoint, blockdevice, filesystem) ==
    [Mountpoint |-> mountpoint, BlockDevice |-> blockdevice,
     Filesystem |-> filesystem]

IsBootMount(p) == p.Mountpoint = BOOT \/ p.Mountpoint = MNT_BOOT

filterValidPartitionsAll(partitions) == partitions
filterValidPartitions(partitions) ==
    SelectSeq(partitions, LAMBDA p : p.BlockDevice # EMPTY)

\* the less function sortByMountpoint hands to sort.Slice
lessByMountpoint(data, i, j) ==
    Len(data[i].Mountpoint) < Len(data[j].Mountpoint)

\* reflect.Swapper
swapEntries(data, i, j) == [data EXCEPT ![i] = data[j], ![j] = data[i]]

\* one pass of insertionSort_func: x moves left while it is strictly less
\* than its left neighbour
RECURSIVE InsertByLength(_, _)
InsertByLength(sorted, x) ==
    IF sorted = << >> THEN <<x>>
    ELSE IF Len(x.Mountpoint) < Len(sorted[Len(sorted)].Mountpoint)
         THEN Append(InsertByLength(SubSeq(sorted, 1, Len(sorted) - 1), x),
                     sorted[Len(sorted)])
         ELSE Append(sorted, x)

\* sort.insertionSort_func over a whole (sub)slice
RECURSIVE insertionSort_func(_)
insertionSort_func(data) ==
    IF data = << >> THEN << >>
    ELSE InsertByLength(insertionSort_func(SubSeq(data, 1, Len(data) - 1)),
                        data[Len(data)])

\* sort.order2_func: the two indices in order, and the swap count
order2_func(data, a, b, swaps) ==
    IF lessByMountpoint(data, b, a) THEN <<b, a, swaps + 1>> ELSE <<a, b, swaps>>

\* sort.median_func
median_func(data, a, b, c) ==
    LET r1 == order2_func(data, a, b, 0)
        r2 == order2_func(data, r1[2], c, r1[3])
        r3 == order2_func(data, r1[1], r2[1], r2[3])
    IN  [pivot |-> r3[2], swaps |-> r3[3]]

\* sort.choosePivot_func on data[1..n] for 8 <= n < 50: the median of the
\* three quartile entries; no swap while choosing hints at a sorted slice
choosePivot_func(data) ==
    LET q == Len(data) \div 4
        m == median_func(data, 1 + q, 1 + 2 * q, 1 + 3 * q)
    IN  [pivot |-> m.pivot, increasing |-> m.swaps = 0]

\* sort.partialInsertionSort_func below 50 entries: true, with the slice
\* untouched, exactly when the slice is already in order
partialInsertionSort_func(data) ==
    \A i \in 2..Len(data) : ~lessByMountpoint(data, i, i - 1)

\* the scanning loop of sort.partition_func; the pivot sits at index 1
RECURSIVE partitionScan(_, _, _)
partitionScan(data, i, j) ==
    LET i2 == CHOOSE k \in i..(j + 1) :
                  /\ k = j + 1 \/ ~lessByMountpoint(data, k, 1)
                  /\ \A l \in i..(k - 1) : lessByMountpoint(data, l, 1)
        j2 == CHOOSE k \in (i2 - 1)..j :
                  /\ k = i2 - 1 \/ lessByMountpoint(data, k, 1)
                  /\ \A l \in (k + 1)..j : ~lessByMountpoint(data, l, 1)
    IN  IF i2 > j2 THEN [data |-> swapEntries(data, j2, 1), mid |-> j2]
        ELSE partitionScan(swapEntries(data, i2, j2), i2 + 1, j2 - 1)

\* sort.partition_func on data[1..n]
partition_func(data, pivot) ==
    partitionScan(swapEntries(data, 1, pivot), 2, Len(data))

\* sort.pdqsort_func on a slice of 13 entries: unless the slice is found in
\* order, one partitioning leaves two sides of at most 12 entries, each of
\* which is insertion sorted
pdqsort_func(data) ==
    LET c == choosePivot_func(data) IN
    IF c.increasing /\ partialInsertionSort_func(data) THEN data
    ELSE LET p == partition_func(data, c.pivot) IN
         insertionSort_func(SubSeq(p.data, 1, p.mid - 1))
            \o <<p.data[p.mid]>>
            \o insertionSort_func(SubSeq(p.data, p.mid + 1, Len(data)))

\* sort.Slice: insertion sort up to 12 entries, pattern-defeating quicksort
\* above; configurations carry at most 13 specs
sortByMountpoint(partitions) ==
    CASE Len(partitions) <= 12 -> insertionSort_func(partitions)
      [] Len(partitions) = 13 -> pdqsort_func(partitions)

\* an automatic flow that mounts root before it formats
formatAndMountAutoMountFirst(device, efi) ==
    LET bootPartition == PartitionName(device, 1)
        rootPartition == PartitionName(device, 2)
    IN  Mount(rootPartition, MNT)
            \o FormatAutoPartition(bootPartition, TRUE, efi)
            \o FormatAutoPartition(rootPartition, FALSE, efi)
            \o <<FileOp("mkdir", MNT_BOOT, "feval")>>
            \o Mount(bootPartition, MNT_BOOT)

formatAndMountAuto(device, efi) ==
    LET bootPartition == PartitionName(device, 1)
        rootPartition == PartitionName(device, 2)
    IN  FormatAutoPartition(bootPartition, TRUE, efi)
            \o FormatAutoPartition(rootPartition, FALSE, efi)
            \o Mount(rootPartition, MNT)
            \o <<FileOp("mkdir", MNT_BOOT, "feval")>>
            \o Mount(bootPartition, MNT_BOOT)

\* PartitionType.Validate
Validate(p) ==
    IF p.BlockDevice = EMPTY THEN <<Return("empty blockdevice", {})>>
    ELSE IF ~Exists(p.BlockDevice)
         THEN <<Return("blockdevice does not exist", {p.BlockDevice})>>
         ELSE << >>

formatAndMount(partition, efi) ==
    IF Validate(partition) # << >> THEN Validate(partition)
    ELSE <<Exec("umount", "", partition.BlockDevice, EMPTY, "ign")>> \o
         (LET fsType == ParseFilesystem(partition.Filesystem) IN
          IF fsType = "NoFormat" THEN << >>
          ELSE Format(partition.BlockDevice, fsType)
                  \o EnsureExists(partition.Mountpoint)
                  \o Mount(partition.BlockDevice, partition.Mountpoint)
                  \o (IF IsBootMount(partition)
                      THEN TrySet(partition.BlockDevice, efi) ELSE << >>))

RECURSIVE processPartitions(_, _)
processPartitions(validPartitions, efi) ==
    IF validPartitions = << >> THEN << >>
    ELSE WrapNames(formatAndMount(Head(validPartitions), efi),
                   Head(validPartitions).BlockDevice)
            \o processPartitions(Tail(validPartitions), efi)

manualPartition(partitions, efi) ==
    processPartitions(sortByMountpoint(filterValidPartitions(partitions)), efi)

autoPartition(device, efi) ==
    IF ~Exists(device) THEN <<Return("device does not exist", {device})>>
    ELSE Create(device, efi)
            \o <<Sleep("KernelWaitTime")>>
            \o (LET s == Set(PartitionName(device, 1), efi) IN
                IF s.err # "" THEN <<Warn("Failed to set boot flags",
                                          PartitionName(device, 1))>>
                ELSE s.steps)
            \o formatAndMountAuto(device, efi)

\* a Partition that unmounts only after the work of the mode
PartitionModeFirst(device, mode, efi, partitions) ==
    (CASE mode = "auto" -> autoPartition(device, efi)
       [] mode = "manual" -> manualPartition(partitions, efi)
       [] OTHER -> <<Return("unsupported partition mode", {})>>)
    \o CleanupAll

Partition(device, mode, efi, partitions) ==
    CleanupAll \o
    (CASE mode = "auto" -> autoPartition(device, efi)
       [] mode = "manual" -> manualPartition(partitions, efi)
       [] OTHER -> <<Return("unsupported partition mode", {})>>)

W_auto == <<"a", "u", "t", "o">>
W_manual == <<"m", "a", "n", "u", "a", "l">>

ParsePartitionMode(mode) ==
    LET normalized == ToLower(TrimSpace(mode)) IN
    CASE normalized = W_auto -> [mode |-> "auto", err |-> FALSE]
      [] normalized = W_manual -> [mode |-> "manual", err |-> FALSE]
      [] OTHER -> [mode |-> "auto", err |-> TRUE]

(***************************************************************************)
(* config.go: helpers of setupPartitions                                   *)
(***************************************************************************)
\* strings.SplitN(spec, ":", 3)
SplitN3(spec) ==
    LET Colons == {i \in 1..Len(spec) : spec[i] = ":"} IN
    IF Colons = {} THEN <<spec>>
    ELSE LET c1 == CHOOSE i \in Colons : \A j \in Colons : i <= j
             Rest == Colons \ {c1}
         IN  IF Rest = {}
             THEN <<SubSeq(spec, 1, c1 - 1), SubSeq(spec, c1 + 1, Len(spec))>>
             ELSE LET c2 == CHOOSE i \in Rest : \A j \in Rest : i <= j IN
                  <<SubSeq(spec, 1, c1 - 1), SubSeq(spec, c1 + 1, c2 - 1),
                    SubSeq(spec, c2 + 1, Len(spec))>>

parsePartitions(specs) ==
    IF \E i \in DOMAIN specs : Len(SplitN3(specs[i])) # 3
    THEN [err |-> TRUE, partitions |-> << >>]
    ELSE [err |-> FALSE,
          partitions |-> [i \in DOMAIN specs |->
              LET parts == SplitN3(specs[i]) IN
              NewPartition(parts[1], parts[2], parts[3])]]

\* filepath.Clean on the inputs in use (no ".", ".." or doubled slashes):
\* trailing slashes are dropped, the empty path becomes "."
RECURSIVE Clean(_)
Clean(path) ==
    IF path = EMPTY THEN <<".">>
    ELSE IF Len(path) > 1 /\ path[Len(path)] = "/"
         THEN Clean(SubSeq(path, 1, Len(path) - 1))
         ELSE path

normalizeDevicePath(device) ==
    LET trimmed == IF HasPrefix(device, DEV)
                   THEN SubSeq(device, Len(DEV) + 1, Len(device)) ELSE device
    IN  DEV \o Clean(trimmed)


(***************************************************************************)
(* config.go: the stages                                                   *)
(***************************************************************************)
\* a chroot / host command whose error the stage returns
Cmd(cmd, flag) == Exec(cmd, flag, EMPTY, EMPTY, "ret")
\* a command run through utils.ExecEval
CmdEval(cmd, flag) == Exec(cmd, flag, EMPTY, EMPTY, "eval")
\* a command whose error is dropped by the caller
CmdIgnored(cmd, flag) == Exec(cmd, flag, EMPTY, EMPTY, "ign")
\* utils.Install / utils.InstallBase of a package group
Install(what) == Exec("install", what, EMPTY, EMPTY, "ret")

setupPartitions ==
    LET m == ParsePartitionMode(cfg.mode)
        parsed == parsePartitions(cfg.partitions)
    IN  (IF m.err THEN <<Warn("Using default partition mode", EMPTY)>> ELSE << >>)
        \o (IF parsed.err THEN <<Return("invalid format", {})>>
            ELSE Partition(normalizeDevicePath(cfg.device), m.mode, cfg.efi,
                           parsed.partitions)
                    \o <<Record(MNT)>>)

installBaseSystem ==
    <<FileOp("mkdir /mnt/etc", EMPTY, "ign"), Install("base")>>

chrootMounts == <<MNT_PROC, MNT_SYS, MNT_DEV, MNT_DEV_PTS>>

RECURSIVE mountAndRecord(_)
mountAndRecord(targets) ==
    IF targets = << >> THEN << >>
    ELSE <<Exec("mount", "chroot", EMPTY, Head(targets), "ret"),
           Record(Head(targets))>> \o mountAndRecord(Tail(targets))

setupChroot ==
    [i \in 1..5 |-> FileOp("MkdirAll", EMPTY, "ret")]
        \o mountAndRecord(chrootMounts)
        \o <<Sleep("mountStabilize")>>

setupKeyring ==
    <<Cmd("which", "pacman-key"), Cmd("pacman-key", "--init"),
      Cmd("pacman-key", "--populate")>>

\* base.Genfstab
generateFstab == <<CmdEval("genfstab", "-U /mnt")>>

\* grub.go: configureGrubThemeAndConfig
configureGrubThemeAndConfig ==
    <<FileOp("SedFile grub", EMPTY, "feval"), CmdEval("grub-mkconfig", "")>>

\* grub.go: InstallBootloaderEFI / InstallBootloaderLegacy
setupBootloader ==
    CASE cfg.bootloader = "grub-efi" ->
            <<Install("grub-efi"), FileOp("Exists efidir", EMPTY, "ret"),
              CmdEval("grub-install", "main"), CmdEval("grub-install", "fallback")>>
                \o configureGrubThemeAndConfig
                \o <<CmdEval("efibootmgr", "")>>
      [] cfg.bootloader = "grub-legacy" ->
            <<Install("grub-legacy"), FileOp("Exists device", EMPTY, "ret"),
              CmdEval("grub-install", "legacy")>>
                \o configureGrubThemeAndConfig
      [] OTHER -> <<Return("unsupported bootloader", {})>>

\* the errors of SetLocale, SetKeyboard and SetTimezone are dropped
configureLocale ==
    <<CmdIgnored("SetLocale", ""), CmdIgnored("SetKeyboard", ""),
      CmdIgnored("SetTimezone", "")>>

setupNetworking ==
    <<FileOp("CreateFile hostname", EMPTY, "ign"),
      FileOp("AppendFile hostname", EMPTY, "feval"),
      FileOp("CreateFile hosts", EMPTY, "ign"),
      FileOp("AppendFile hosts", EMPTY, "feval")>>
        \o (IF cfg.ipv6 THEN <<FileOp("AppendFile hosts ipv6", EMPTY, "feval")>>
            ELSE << >>)

\* users.NewUser
NewUser(user) ==
    <<Install("shell"), Cmd("useradd", "")>>
        \o (IF user.HasRoot
            THEN <<Cmd("usermod", "-aG wheel"),
                   FileOp("SedFile sudoers", EMPTY, "ret"),
                   FileOp("AppendFile sudoers", EMPTY, "ret"),
                   FileOp("CreateDirectory AccountsService", EMPTY, "ret"),
                   FileOp("CreateFile AccountsService", EMPTY, "ret"),
                   FileOp("AppendFile AccountsService", EMPTY, "ret")>>
            ELSE << >>)

RECURSIVE newUsers(_)
newUsers(users) ==
    IF users = << >> THEN << >> ELSE NewUser(Head(users)) \o newUsers(Tail(users))

\* the error of users.RootPass is dropped
createUsers == newUsers(cfg.users) \o <<CmdIgnored("RootPass", "")>>

\* services.go: EnableService
EnableService(service) == <<CmdEval("systemctl enable", service)>>

\* desktop.go: installAndEnable
installAndEnable(packages, service, post) ==
    <<Install(packages)>> \o post \o EnableService(service)

desktopConfigs ==
    [plasma |-> installAndEnable("plasma", "sddm", << >>),
     cinnamon |-> installAndEnable("cinnamon", "lightdm",
                     <<FileOp("AppendFile lightdm.conf", EMPTY, "feval")>>)]

\* desktops.go: InstallDesktopSetup
InstallDesktopSetup(desktop) ==
    <<Install("networkmanager"), FileOp("migrateNetworkConnections", EMPTY, "ign")>>
        \o EnableService("NetworkManager")
        \o <<Install("firewalld")>> \o EnableService("firewalld")
        \o desktopConfigs[desktop]
        \o <<Install("bluez")>> \o EnableService("bluetooth")
        \o <<Install("cups")>> \o EnableService("cups")
        \o <<Install("tuned-ppd")>> \o EnableService("tuned-ppd")

installDesktop ==
    IF cfg.desktop \in {"", "none"} THEN << >>
    ELSE IF cfg.desktop \notin DOMAIN desktopConfigs
         THEN <<Return("unsupported desktop", {})>>
         ELSE InstallDesktopSetup(cfg.desktop)

installExtras ==
    (IF cfg.flatpak
     THEN <<Install("flatpak"), CmdEval("flatpak", "remote-add flathub")>>
     ELSE << >>)
        \o (IF cfg.extras THEN <<Install("extra packages")>> ELSE << >>)

\* base.InstallZram: a directory or write failure is logged, nil is returned
InstallZram ==
    <<Install("zram-generator"), FileOp("CreateDirectory systemd", EMPTY, "retnil"),
      FileOp("WriteFile zram-generator.conf", EMPTY, "retnil")>>

finalize ==
    <<CmdIgnored("InstallNvidia", ""), FileOp("CopyLiveConfig", EMPTY, "ign")>>
        \o InstallZram

buildStages ==
    <<[Name |-> "Partition Setup", Required |-> TRUE],
      [Name |-> "Base System", Required |-> TRUE],
      [Name |-> "Chroot Environment", Required |-> TRUE],
      [Name |-> "System Keyring", Required |-> TRUE],
      [Name |-> "File System Table", Required |-> TRUE],
      [Name |-> "Bootloader", Required |-> TRUE],
      [Name |-> "Locale Configuration", Required |-> TRUE],
      [Name |-> "Network Configuration", Required |-> TRUE],
      [Name |-> "User Accounts", Required |-> TRUE],
      [Name |-> "Desktop Environment", Required |-> FALSE],
      [Name |-> "Additional Packages", Required |-> FALSE],
      [Name |-> "System Finalization", Required |-> TRUE]>>

\* Stage.Execute of the stage at index i
Execute(i) ==
    CASE i = 1 -> setupPartitions
      [] i = 2 -> installBaseSystem
      [] i = 3 -> setupChroot
      [] i = 4 -> setupKeyring
      [] i = 5 -> generateFstab
      [] i = 6 -> setupBootloader
      [] i = 7 -> configureLocale
      [] i = 8 -> setupNetworking
      [] i = 9 -> createUsers
      [] i = 10 -> installDesktop
      [] i = 11 -> installExtras
      [] i = 12 -> finalize


(***************************************************************************)
(* Inputs                                                                  *)
(***************************************************************************)
RawSpec(mountpoint, blockdevice, filesystem) ==
    mountpoint \o <<":">> \o blockdevice \o <<":">> \o filesystem

\* partitions[] entries a configuration may carry (each has exactly two ':')
RawSpecs ==
    {RawSpec(MNT, SDA2, W_ext4),
     RawSpec(MNT_BOOT, SDA1, W_fat32),
     RawSpec(MNT_BOOT, SDA1, W_noformat),
     RawSpec(MNT_HOME, NVMEP1, W_Do_Not_Format),
     RawSpec(MNT_BOOT, MAPPER, W_ext4),
     RawSpec(BOOT, NVMEP2, W_EXT4_padded),
     RawSpec(MNT, EMPTY, W_ext4),
     RawSpec(MNT_HOME, SDA2, EMPTY)}

RECURSIVE SeqsUpTo(_, _)
SeqsUpTo(S, n) ==
    IF n = 0 THEN {<< >>}
    ELSE LET shorter == SeqsUpTo(S, n - 1) IN
         shorter \cup {Append(q, x) : q \in {r \in shorter : Len(r) = n - 1}, x \in S}

\* a configuration of 13 specs, one disk each: /mnt/home on /dev/sdb, /mnt on
\* /dev/sdc, then /mnt/d .. /mnt/n on /dev/sdd .. /dev/sdn
DiskLetters == <<"b", "c", "d", "e", "f", "g", "h", "i", "j", "k", "l", "m", "n">>
ManyDisks == [i \in DOMAIN DiskLetters |-> DEV \o <<"s", "d", DiskLetters[i]>>]
ManySpecs ==
    [i \in DOMAIN DiskLetters |->
        RawSpec(CASE i = 1 -> MNT_HOME
                  [] i = 2 -> MNT
                  [] OTHER -> MNT \o <<"/", DiskLetters[i]>>,
                ManyDisks[i], W_ext4)]
\* the same specs configured with the mountpoints already in ascending length
ManySpecsInOrder ==
    <<ManySpecs[2]>> \o SubSeq(ManySpecs, 3, Len(ManySpecs)) \o <<ManySpecs[1]>>

LOOP0 == DEV \o <<"l", "o", "o", "p", "0">>

AllDevices ==
    {SDA, SDA1, SDA2, NVME, NVMEP1, NVMEP2, MAPPER, LOOP0}
        \cup {ManyDisks[i] : i \in DOMAIN ManyDisks}
\* which device nodes are present
ExistsChoices ==
    {AllDevices, AllDevices \ {SDA}, AllDevices \ {SDA1}, AllDevices \ {NVME}}

W_raid == <<"r", "a", "i", "d">>
W_Manual_padded == <<" ", "M", "a", "n", "u", "a", "l", " ">>

BaseConfig ==
    [device |-> SDA, mode |-> W_auto, efi |-> TRUE, partitions |-> << >>,
     bootloader |-> "grub-efi", location |-> "/boot/efi",
     locale |-> <<"en_US.UTF-8 UTF-8">>, keymap |-> "us",
     timezone |-> "Europe/Kyiv", hostname |-> "prism", ipv6 |-> TRUE,
     users |-> <<[Name |-> "user", Password |-> "hash", HasRoot |-> TRUE]>>,
     rootpass |-> "hash", kernel |-> "linux",
     desktop |-> "", flatpak |-> FALSE, extras |-> FALSE]

\* configurations Config.Validate has to reject, one defect each
InvalidConfigs ==
    {[BaseConfig EXCEPT !.device = EMPTY],
     [BaseConfig EXCEPT !.bootloader = ""],
     [BaseConfig EXCEPT !.bootloader = "systemd-boot"],
     [BaseConfig EXCEPT !.location = ""],
     [BaseConfig EXCEPT !.locale = << >>],
     [BaseConfig EXCEPT !.keymap = ""],
     [BaseConfig EXCEPT !.timezone = ""],
     [BaseConfig EXCEPT !.hostname = ""],
     [BaseConfig EXCEPT !.users = << >>],
     [BaseConfig EXCEPT !.rootpass = ""],
     [BaseConfig EXCEPT !.kernel = ""],
     [BaseConfig EXCEPT !.users = <<[Name |-> "", Password |-> "hash",
                                     HasRoot |-> TRUE]>>],
     [BaseConfig EXCEPT !.users = <<[Name |-> "user", Password |-> "hash",
                                     HasRoot |-> TRUE],
                                    [Name |-> "guest", Password |-> "",
                                     HasRoot |-> FALSE]>>],
     [BaseConfig EXCEPT !.mode = W_manual,
                        !.partitions = <<MNT \o <<":">> \o SDA2>>],
     [BaseConfig EXCEPT !.mode = W_manual,
                        !.partitions = <<RawSpec(MNT, SDA2, W_ext4),
                                         RawSpec(MNT_BOOT, SDA1, W_fat32)
                                             \o <<":", "x">>>>]}

\* partition sections of the configurations a whole run is explored with
InstallPartitionConfigs ==
    {[device |-> SDA, mode |-> W_auto, efi |-> TRUE, partitions |-> << >>],
     [device |-> <<"n", "v", "m", "e", "0", "n", "1">>, mode |-> W_auto,
      efi |-> FALSE, partitions |-> << >>],
     [device |-> SDA, mode |-> W_manual, efi |-> TRUE,
      partitions |-> <<RawSpec(MNT_BOOT, SDA1, W_fat32), RawSpec(MNT, SDA2, W_ext4)>>],
     [device |-> SDA, mode |-> W_manual, efi |-> TRUE,
      partitions |-> <<RawSpec(MNT, SDA2, W_noformat)>>],
     \* /dev/sda3 is no device node
     [device |-> SDA, mode |-> W_manual, efi |-> TRUE,
      partitions |-> <<RawSpec(MNT_BOOT, SDA \o <<"3">>, W_fat32),
                       RawSpec(MNT, SDA2, W_ext4)>>]}

Desktops == {"", "plasma", "xfce"}

\* partition sections explored for the Partition Setup stage on its own
StagePartitionConfigs ==
    {[device |-> d, mode |-> m, efi |-> e, partitions |-> << >>] :
        d \in {SDA, <<"s", "d", "a">>, NVME, LOOP0, SDA1}, m \in {W_auto, W_raid},
        e \in BOOLEAN}
    \cup
    {[device |-> SDA, mode |-> m, efi |-> e, partitions |-> ps] :
        m \in {W_manual, W_Manual_padded}, e \in BOOLEAN,
        ps \in SeqsUpTo(RawSpecs, MaxParts)}
    \cup
    {[device |-> SDA, mode |-> W_manual, efi |-> TRUE, partitions |-> ps] :
        ps \in {ManySpecs, ManySpecsInOrder}}

InitCommon ==
    /\ idx = 1
    /\ sp = 1
    /\ prog = << >>
    /\ cancelled = FALSE
    /\ mountPoints = << >>
    /\ cmds = << >>
    /\ started = << >>
    /\ finished = << >>
    /\ cancelAt = NoCancel
    /\ warned = {}
    /\ result = NoResult
    /\ fatal = NoFail
    /\ exitCode = NoExit
    /\ cleanupIdx = 0
    /\ cleanupErr = FALSE
    /\ ret = NoRet

\* a whole run: ReadConfig is entered with the configuration file's content
Init ==
    /\ scope = "install"
    /\ pc = "load"
    /\ \/ \E pcfg \in InstallPartitionConfigs, d \in Desktops, f \in BOOLEAN :
          cfg = [BaseConfig EXCEPT !.device = pcfg.device, !.mode = pcfg.mode,
                                   !.efi = pcfg.efi,
                                   !.partitions = pcfg.partitions,
                                   !.bootloader = IF pcfg.efi THEN "grub-efi"
                                                  ELSE "grub-legacy",
                                   !.desktop = d, !.flatpak = f, !.extras = f]
       \/ cfg \in InvalidConfigs
    /\ exists = AllDevices
    /\ mounted = {}
    /\ arg = EMPTY
    /\ InitCommon

\* the Partition Setup stage on its own
InitPartition ==
    /\ scope = "partition"
    /\ pc = "check"
    /\ \E pcfg \in StagePartitionConfigs :
          cfg = [BaseConfig EXCEPT !.device = pcfg.device, !.mode = pcfg.mode,
                                   !.efi = pcfg.efi,
                                   !.partitions = pcfg.partitions]
    /\ exists \in ExistsChoices
    /\ mounted \in {{}, {MNT}}
    /\ arg = EMPTY
    /\ InitCommon


(***************************************************************************)
(* Effects of commands on the mount table                                  *)
(***************************************************************************)
\* path is root or lies beneath it
Under(path, root) ==
    /\ HasPrefix(path, root)
    /\ Len(path) = Len(root) \/ path[Len(root) + 1] = "/"

IsUmount(st) == st.cmd = "umount" /\ st.mp # EMPTY

\* the node Linux creates for partition num of a disk: a 'p' follows a disk
\* name that ends in a digit
KernelPartitionName(device, num) ==
    device \o (IF device # EMPTY /\ device[Len(device)] \in Digits
               THEN <<"p">> ELSE EMPTY)
           \o Itoa(num)

\* device nodes present: those the run found, and the partitions of the
\* tables it has created
NodeExists(path) ==
    \/ path \in exists
    \/ \E c \in DOMAIN cmds :
          /\ cmds[c].cmd = "parted"
          /\ \/ /\ cmds[c].flag \in {"mkpart ESP fat32 1MiB 513MiB",
                                     "mkpart primary ext4 1MiB 513MiB"}
                /\ path = KernelPartitionName(cmds[c].dev, 1)
             \/ /\ cmds[c].flag \in {"mkpart root ext4 513MiB 100%",
                                     "mkpart primary ext4 513MiB 100%"}
                /\ path = KernelPartitionName(cmds[c].dev, 2)

\* umount of a mount point succeeds only on something mounted; a plain
\* umount also needs nothing to be mounted beneath it; mkfs and mount of a
\* block device succeed only on a node that exists
CanSucceed(st) ==
    IF IsUmount(st)
    THEN /\ st.mp \in mounted
         /\ st.flag = "" => \A m \in mounted : Under(m, st.mp) => m = st.mp
    ELSE (/\ st.cmd \in {"mkfs.ext4", "mkfs.fat", "mkfs.btrfs", "mkfs.xfs", "mount"}
          /\ st.dev # EMPTY) => NodeExists(st.dev)

MountedAfter(st) ==
    IF st.cmd = "mount" THEN mounted \cup {st.mp}
    ELSE IF IsUmount(st)
         THEN IF st.flag = "" THEN mounted \ {st.mp}
              ELSE {m \in mounted : ~Under(m, st.mp)}
         ELSE mounted

\* the command as it appears in the log; stage 0 is the deferred cleanup
Issued(st, stage) ==
    [cmd |-> st.cmd, flag |-> st.flag, dev |-> st.dev, num |-> st.num,
     mp |-> st.mp, stage |-> stage]

Logged(st) ==
    IF st.k \in {"exec", "file", "sleep"} THEN Append(cmds, Issued(st, idx))
    ELSE cmds

(***************************************************************************)
(* exec.go / crash: ExecEval, FilesEval, Crash; main                       *)
(***************************************************************************)
\* ExecEval: the exit code of an *exec.ExitError, 1 for any other error
ExecEvalCode(rc) == IF rc # NotStarted THEN rc ELSE 1

\* os.Exit(code) as the parent process sees it
OsExit(code) == code % 256

\* main: os.Exit(1) when cli.Execute returns an error
MainExitCode(res) == IF res.kind = "ok" THEN 0 ELSE 1

(***************************************************************************)
(* config.go: Installer.Install                                            *)
(***************************************************************************)
\* what Install, Partition or ReadConfig returns
Ok == [kind |-> "ok", stage |-> "", names |-> {}, msg |-> ""]
Err(msg, names) == [kind |-> "err", stage |-> "", names |-> names, msg |-> msg]

\* isValidBootloader
isValidBootloader(bl) == bl \in {"grub-efi", "grub-legacy"}

\* a validation that accepts every configuration
ValidateConfigAny(c) == ""
\* Config.Validate: "" when the configuration is valid, else the error
ValidateConfig(c) ==
    CASE c.device = EMPTY -> "partition device is required"
      [] c.bootloader = "" -> "bootloader type is required"
      [] ~isValidBootloader(c.bootloader) -> "invalid bootloader type"
      [] c.location = "" -> "bootloader location is required"
      [] Len(c.locale) = 0 -> "at least one locale is required"
      [] c.keymap = "" -> "keymap is required"
      [] c.timezone = "" -> "timezone is required"
      [] c.hostname = "" -> "hostname is required"
      [] Len(c.users) = 0 -> "at least one user is required"
      [] c.rootpass = "" -> "root password is required"
      [] c.kernel = "" -> "kernel package is required"
      [] \E i \in DOMAIN c.users : c.users[i].Name = "" -> "user: name is required"
      [] \E i \in DOMAIN c.users : c.users[i].Password = "" ->
            "user: password is required"
      [] \E i \in DOMAIN c.partitions :
            Cardinality({k \in DOMAIN c.partitions[i] :
                            c.partitions[i][k] = ":"}) # 2 ->
            "partition: invalid format"
      [] OTHER -> ""

\* ReadConfig up to the call of Install: LoadConfig reads, parses and
\* validates the file; an error is returned to main
LoadConfig ==
    /\ pc = "load"
    /\ \/ /\ ValidateConfig(cfg) = ""
          /\ pc' = "check"
          /\ UNCHANGED result
       \/ /\ ValidateConfig(cfg) # ""
          /\ pc' = "returned"
          /\ result' = Err("config validation failed", {})
       \/ /\ pc' = "returned"
          /\ result' = Err("read config file", {})
    /\ UNCHANGED <<arg, ret, cfg, exists, scope, idx, sp, cancelled, mountPoints, mounted,
                   cmds, started, finished, cancelAt, warned, fatal, exitCode,
                   cleanupIdx, cleanupErr, prog>>

\* a loop that advances by two stages
NextStageSkipping(i) == i + 2
\* the range loop over stages
NextStage(i) == i + 1

\* a loop in which no failure aborts
AbortsNever(stage) == FALSE
\* whether a failed stage aborts the run
Aborts(stage) == stage.Required

\* a cleanup that walks the slice from the front
cleanupTargetsForward(mps) == mps
\* the order in which cleanup visits the recorded mount points
cleanupTargets(mps) == [k \in 1..Len(mps) |-> mps[Len(mps) - k + 1]]


\* the loop body of Install after stage.Execute has returned `err`
AfterExecute(err) ==
    /\ finished' = Append(finished, idx)
    /\ IF scope = "partition"
       THEN /\ pc' = "done"
            /\ result' = err
            /\ UNCHANGED <<idx, warned, cleanupIdx>>
       ELSE IF err.kind = "err" /\ Aborts(buildStages[idx])
       THEN /\ result' = [err EXCEPT !.stage = buildStages[idx].Name]
            /\ pc' = "cleanup"
            /\ cleanupIdx' = 1
            /\ UNCHANGED <<idx, warned>>
       ELSE /\ warned' = IF err.kind = "err"
                         THEN warned \cup {[stage |-> idx,
                                            msg |-> "failed (non-critical)",
                                            dev |-> EMPTY]}
                         ELSE warned
            /\ IF NextStage(idx) > Len(buildStages)
               THEN /\ result' = Ok
                    /\ pc' = "cleanup"
                    /\ cleanupIdx' = 1
                    /\ UNCHANGED idx
               ELSE /\ idx' = NextStage(idx)
                    /\ pc' = "check"
                    /\ UNCHANGED <<result, cleanupIdx>>

\* a select that never takes the ctx.Done() case
DoneNever == FALSE
\* case <-ctx.Done() of the select at the top of the loop body
Done == cancelled

\* select on ctx.Done(): the context is cancelled at a stage boundary
CtxDone ==
    /\ pc = "check"
    /\ Done
    /\ result' = [kind |-> "cancelled", stage |-> "", names |-> {},
                  msg |-> "installation cancelled"]
    /\ pc' = "cleanup"
    /\ cleanupIdx' = 1
    /\ UNCHANGED <<arg, ret, cfg, exists, scope, idx, sp, cancelled, mountPoints, mounted,
                   cmds, started, finished, cancelAt, warned, fatal, exitCode,
                   cleanupErr, prog>>

\* default branch of the select: stage.Execute(ctx) is called
StartStage ==
    /\ pc = "check"
    /\ ~Done
    /\ started' = Append(started, idx)
    /\ prog' = Execute(idx)
    /\ sp' = 1
    /\ pc' = "run"
    /\ UNCHANGED <<arg, ret, cfg, exists, scope, idx, cancelled, mountPoints, mounted,
                   cmds, finished, cancelAt, warned, result, fatal, exitCode,
                   cleanupIdx, cleanupErr>>

\* the deadline of ReadConfig's context passes
Cancel ==
    /\ scope = "install"
    /\ pc \in {"check", "run"}
    /\ ~cancelled
    /\ cancelled' = TRUE
    /\ cancelAt' = [pc |-> pc, idx |-> idx]
    /\ UNCHANGED <<arg, ret, cfg, exists, scope, pc, idx, sp, mountPoints, mounted, cmds,
                   started, finished, warned, result, fatal, exitCode,
                   cleanupIdx, cleanupErr, prog>>

\* a step of the running stage succeeds
StepOk ==
    /\ pc = "run"
    /\ sp <= Len(prog)
    /\ LET st == prog[sp] IN
       /\ st.k # "return"
       /\ st.on # "probe"
       /\ CanSucceed(st)
       /\ cmds' = Logged(st)
       /\ mounted' = MountedAfter(st)
       /\ mountPoints' = IF st.k = "record" THEN Append(mountPoints, st.mp)
                         ELSE mountPoints
       /\ warned' = IF st.k = "warn"
                    THEN warned \cup {[stage |-> idx, msg |-> st.cmd, dev |-> st.dev]}
                    ELSE warned
    /\ sp' = sp + 1
    /\ UNCHANGED <<arg, ret, cfg, exists, scope, pc, idx, cancelled, started, finished,
                   cancelAt, result, fatal, exitCode, cleanupIdx, cleanupErr,
                   prog>>

\* MountManager.IsMounted: the next step (umount) runs only when mounted
StepProbe ==
    /\ pc = "run"
    /\ sp <= Len(prog)
    /\ prog[sp].on = "probe"
    /\ cmds' = Logged(prog[sp])
    /\ sp' = IF prog[sp].mp \in mounted THEN sp + 1 ELSE sp + 2
    /\ UNCHANGED <<arg, ret, cfg, exists, scope, pc, idx, cancelled, mountPoints, mounted,
                   started, finished, cancelAt, warned, result, fatal,
                   exitCode, cleanupIdx, cleanupErr, prog>>

\* a step fails and the code ignores the error
StepFailIgnored ==
    /\ pc = "run"
    /\ sp <= Len(prog)
    /\ prog[sp].k \in {"exec", "file"}
    /\ prog[sp].on = "ign"
    /\ cmds' = Logged(prog[sp])
    /\ sp' = sp + 1
    /\ UNCHANGED <<arg, ret, cfg, exists, scope, pc, idx, cancelled, mountPoints, mounted,
                   started, finished, cancelAt, warned, result, fatal,
                   exitCode, cleanupIdx, cleanupErr, prog>>

\* a step fails under ExecEval / FilesEval: utils.Crash ends the process
StepFailCrash ==
    /\ pc = "run"
    /\ sp <= Len(prog)
    /\ prog[sp].on \in {"eval", "feval"}
    /\ \E rc \in IF prog[sp].on = "eval" THEN Failures ELSE {NotStarted} :
        /\ fatal' = [cmd |-> prog[sp].cmd, flag |-> prog[sp].flag,
                     dev |-> prog[sp].dev, mp |-> prog[sp].mp, rc |-> rc,
                     how |-> "crash", stage |-> idx]
        /\ exitCode' = OsExit(ExecEvalCode(rc))
    /\ cmds' = Logged(prog[sp])
    /\ pc' = "exited"
    /\ UNCHANGED <<arg, ret, cfg, exists, scope, idx, sp, cancelled, mountPoints, mounted,
                   started, finished, cancelAt, warned, result, cleanupIdx,
                   cleanupErr, prog>>

\* a step fails and the stage returns the error
StepFailReturn ==
    /\ pc = "run"
    /\ sp <= Len(prog)
    /\ prog[sp].on = "ret"
    /\ \E rc \in IF prog[sp].k = "exec" THEN Failures ELSE {NotStarted} :
        fatal' = [cmd |-> prog[sp].cmd, flag |-> prog[sp].flag,
                  dev |-> prog[sp].dev, mp |-> prog[sp].mp, rc |-> rc,
                  how |-> IF prog[sp].k = "return" THEN "check" ELSE "return",
                  stage |-> idx]
    /\ cmds' = Logged(prog[sp])
    /\ AfterExecute(Err(prog[sp].cmd, prog[sp].names))
    /\ UNCHANGED <<arg, ret, cfg, exists, scope, sp, cancelled, mountPoints, mounted,
                   started, cancelAt, exitCode, cleanupErr, prog>>

\* a step fails, the stage logs it and returns nil
StepFailReturnNil ==
    /\ pc = "run"
    /\ sp <= Len(prog)
    /\ prog[sp].on = "retnil"
    /\ cmds' = Logged(prog[sp])
    /\ AfterExecute(Ok)
    /\ UNCHANGED <<arg, ret, cfg, exists, scope, sp, cancelled, mountPoints, mounted,
                   started, cancelAt, fatal, exitCode, cleanupErr, prog>>

\* the stage reaches its end and returns nil
StageReturns ==
    /\ pc = "run"
    /\ sp > Len(prog)
    /\ AfterExecute(Ok)
    /\ UNCHANGED <<arg, ret, cfg, exists, scope, sp, cancelled, mountPoints, mounted, cmds,
                   started, cancelAt, fatal, exitCode, cleanupErr, prog>>

(***************************************************************************)
(* config.go: Installer.cleanup and unmountPoint (deferred by Install)     *)
(***************************************************************************)
\* an unmountPoint that detaches lazily at once
UmountAlwaysLazy(flag, mp) == Exec("umount", "-l", EMPTY, mp, "ign")
\* unmountPoint: utils.Exec("umount", mp) and utils.Exec("umount", "-l", mp)
Umount(flag, mp) == Exec("umount", flag, EMPTY, mp, "ign")

\* unmountPoint: the normal umount
CleanupUnmount ==
    /\ pc = "cleanup"
    /\ cleanupIdx <= Len(mountPoints)
    /\ ~cleanupErr
    /\ LET st == Umount("", cleanupTargets(mountPoints)[cleanupIdx]) IN
       /\ cmds' = Append(cmds, Issued(st, 0))
       /\ \/ /\ CanSucceed(st)
             /\ mounted' = MountedAfter(st)
             /\ cleanupIdx' = cleanupIdx + 1
             /\ UNCHANGED cleanupErr
          \/ /\ cleanupErr' = TRUE
             /\ UNCHANGED <<mounted, cleanupIdx>>
    /\ UNCHANGED <<arg, ret, cfg, exists, scope, pc, idx, sp, cancelled, mountPoints,
                   started, finished, cancelAt, warned, result, fatal,
                   exitCode, prog>>

\* unmountPoint: the lazy umount after a failed normal one; detaching
\* succeeds on anything mounted and fails on a path that is not mounted
CleanupLazyUnmount ==
    /\ pc = "cleanup"
    /\ cleanupIdx <= Len(mountPoints)
    /\ cleanupErr
    /\ LET st == Umount("-l", cleanupTargets(mountPoints)[cleanupIdx]) IN
       /\ cmds' = Append(cmds, Issued(st, 0))
       /\ mounted' = IF CanSucceed(st) THEN MountedAfter(st) ELSE mounted
    /\ cleanupErr' = FALSE
    /\ cleanupIdx' = cleanupIdx + 1
    /\ UNCHANGED <<arg, ret, cfg, exists, scope, pc, idx, sp, cancelled, mountPoints,
                   started, finished, cancelAt, warned, result, fatal,
                   exitCode, prog>>

\* cleanup is over and Install returns to ReadConfig
InstallReturns ==
    /\ pc = "cleanup"
    /\ cleanupIdx > Len(mountPoints)
    /\ pc' = "returned"
    /\ UNCHANGED <<arg, ret, cfg, exists, scope, idx, sp, cancelled, mountPoints, mounted,
                   cmds, started, finished, cancelAt, warned, result, fatal,
                   exitCode, cleanupIdx, cleanupErr, prog>>

\* main: exit status from the error cli.Execute returned
MainExit ==
    /\ pc = "returned"
    /\ exitCode' = MainExitCode(result)
    /\ pc' = "exited"
    /\ UNCHANGED <<arg, ret, cfg, exists, scope, idx, sp, cancelled, mountPoints, mounted,
                   cmds, started, finished, cancelAt, warned, result, fatal,
                   cleanupIdx, cleanupErr, prog>>

Next ==
    \/ LoadConfig
    \/ CtxDone
    \/ StartStage
    \/ Cancel
    \/ StepOk
    \/ StepProbe
    \/ StepFailIgnored
    \/ StepFailCrash
    \/ StepFailReturn
    \/ StepFailReturnNil
    \/ StageReturns
    \/ CleanupUnmount
    \/ CleanupLazyUnmount
    \/ InstallReturns
    \/ MainExit

Spec == Init /\ [][Next]_vars

\* the Partition Setup stage on its own: stops when the stage returns
NextPartition ==
    \/ StartStage
    \/ StepOk
    \/ StepProbe
    \/ StepFailIgnored
    \/ StepFailCrash
    \/ StepFailReturn
    \/ StageReturns

SpecPartition == InitPartition /\ [][NextPartition]_vars

(***************************************************************************)
(* The parsers of partition.go called on their own                         *)
(***************************************************************************)
\* partition numbers as they may be spelled
DigitSuffixes ==
    {<<"1">>, <<"2">>, <<"9">>, <<"0">>, <<"1", "0">>, <<"1", "2">>,
     <<"0", "1">>, <<"0", "0", "7">>}

MMCBLK == DEV \o <<"m", "m", "c", "b", "l", "k", "0">>

\* NVMe/MMC style: whole disks, and base name, 'p', partition number
SpecialDeviceStrings ==
    {NVME, MMCBLK, MAPPER}
        \cup {b \o <<"p">> \o d : b \in {NVME, MMCBLK, MAPPER}, d \in DigitSuffixes}

\* other strings: with and without trailing digits, all digits, empty
StandardDeviceStrings ==
    {b \o d : b \in {SDA, <<"s", "d", "a">>, DEV \o <<"m", "d", "0", "p">>, EMPTY},
              d \in DigitSuffixes \cup {EMPTY}}

DeviceStrings == SpecialDeviceStrings \cup StandardDeviceStrings

\* the ways of writing "do not format" the specification lists
NoFormatPhrases ==
    {W_noformat, W_no_dash_format, W_no_format, W_dont_format, W_Do_Not_Format,
     W_skip_formatting}

ToUpper(s) ==
    [i \in 1..Len(s) |->
        IF \E k \in 1..26 : LowerCase[k] = s[i]
        THEN UpperCase[CHOOSE k \in 1..26 : LowerCase[k] = s[i]]
        ELSE s[i]]

\* a word as written, in lower and in upper case, bare and padded
Spellings(w) ==
    {pre \o c \o post : c \in {w, ToLower(w), ToUpper(w)},
                        pre \in {EMPTY, <<" ">>, <<"\t", " ">>},
                        post \in {EMPTY, <<" ">>, <<"\n">>}}

NoFormatSpellings == UNION {Spellings(w) : w \in NoFormatPhrases}

\* strings that name no filesystem and ask for no skipping
GarbageFilesystems ==
    {EMPTY, <<" ">>, <<"\t", "\n">>, W_swap, W_raid, W_format, W_fmt,
     <<"n", "t", "f", "s">>, <<"e", "x", "t", "3">>, <<"v", "f", "a", "t">>,
     <<"e", "x", "t", " ", "4">>, <<"?">>}

FilesystemStrings ==
    NoFormatSpellings
        \cup UNION {Spellings(w) : w \in {W_ext4, W_fat32, W_btrfs, W_xfs, W_none}}
        \cup GarbageFilesystems

InitPure ==
    /\ \/ scope = "Parse" /\ arg \in DeviceStrings
       \/ scope = "Format" /\ arg \in DeviceStrings
       \/ scope = "ParseFilesystem" /\ arg \in FilesystemStrings
    /\ pc = "call"
    /\ cfg = BaseConfig
    /\ exists = AllDevices
    /\ mounted = {}
    /\ InitCommon

CallParse ==
    /\ scope = "Parse"
    /\ pc = "call"
    /\ ret' = [fn |-> "Parse", device |-> Parse(arg).device,
               partition |-> Parse(arg).partition]
    /\ pc' = "parsed"
    /\ UNCHANGED <<arg, cfg, exists, scope, idx, sp, cancelled, mountPoints,
                   mounted, cmds, started, finished, cancelAt, warned, result,
                   fatal, exitCode, cleanupIdx, cleanupErr, prog>>

\* the recovered number is handed on as an int, when it is one
CallGetPartitionNames ==
    /\ scope = "Parse"
    /\ pc = "parsed"
    /\ isValidPartitionNumber(ret.partition)
    /\ Atoi(ret.partition) >= 0
    /\ ret' = [fn |-> "GetPartitionNames", device |-> ret.device,
               partition |-> ret.partition,
               names |-> GetPartitionNames(ret.device, <<Atoi(ret.partition)>>)]
    /\ pc' = "done"
    /\ UNCHANGED <<arg, cfg, exists, scope, idx, sp, cancelled, mountPoints,
                   mounted, cmds, started, finished, cancelAt, warned, result,
                   fatal, exitCode, cleanupIdx, cleanupErr, prog>>

CallParseFilesystem ==
    /\ scope = "ParseFilesystem"
    /\ pc = "call"
    /\ ret' = [fn |-> "ParseFilesystem", fs |-> ParseFilesystem(arg)]
    /\ pc' = "done"
    /\ UNCHANGED <<arg, cfg, exists, scope, idx, sp, cancelled, mountPoints,
                   mounted, cmds, started, finished, cancelAt, warned, result,
                   fatal, exitCode, cleanupIdx, cleanupErr, prog>>

\* the values of FilesystemType
FilesystemTypes == {"Ext4", "Fat32", "Btrfs", "Xfs", "NoFormat"}

\* FilesystemFormatter.Format returns nil: nothing to do, or mkfs succeeded
CallFormat ==
    /\ scope = "Format"
    /\ pc = "call"
    /\ \E fsType \in FilesystemTypes :
        LET steps == Format(arg, fsType) IN
        /\ cmds' = cmds \o [i \in DOMAIN steps |-> Issued(steps[i], idx)]
        /\ ret' = [fn |-> "Format", fsType |-> fsType, err |-> ""]
    /\ pc' = "done"
    /\ UNCHANGED <<arg, cfg, exists, scope, idx, sp, cancelled, mountPoints,
                   mounted, started, finished, cancelAt, warned, result,
                   fatal, exitCode, cleanupIdx, cleanupErr, prog>>

\* the mkfs command of Format fails under ExecEval: the process exits
CallFormatCrash ==
    /\ scope = "Format"
    /\ pc = "call"
    /\ \E fsType \in FilesystemTypes, rc \in Failures :
        LET steps == Format(arg, fsType) IN
        /\ steps # << >>
        /\ cmds' = Append(cmds, Issued(steps[1], idx))
        /\ ret' = [fn |-> "Format", fsType |-> fsType, err |-> "exit"]
        /\ exitCode' = OsExit(ExecEvalCode(rc))
    /\ pc' = "exited"
    /\ UNCHANGED <<arg, cfg, exists, scope, idx, sp, cancelled, mountPoints,
                   mounted, started, finished, cancelAt, warned, result,
                   fatal, cleanupIdx, cleanupErr, prog>>

NextPure ==
    \/ CallParse
    \/ CallGetPartitionNames
    \/ CallParseFilesystem
    \/ CallFormat
    \/ CallFormatCrash

SpecPure == InitPure /\ [][NextPure]_vars

(***************************************************************************)
(* install.go: executeWithProgress, scanOutput, getExitCode                *)
(*                                                                         *)
(* executeWithProgress called on its own.  arg is what the child process   *)
(* does (lines written to each pipe, how it ends), ret is the frame of     *)
(* the call: the state of the two scanOutput goroutines, the lines each    *)
(* has processed, whether cmd.Wait was called, and the error returned.     *)
(* The ticker goroutine of KeepSpinnerAlive only redraws the bar and is    *)
(* left out.                                                               *)
(***************************************************************************)
Readers == {"stdout", "stderr"}

StreamInputs == [stdout : 0..MaxLines, stderr : 0..MaxLines, exit : Outcomes]

\* getExitCode: the code of an *exec.ExitError, 1 for any other error
getExitCode(rc) == IF rc # NotStarted THEN rc ELSE 1

StreamFrame(state, err) ==
    [fn |-> "executeWithProgress", stdout |-> state, stderr |-> state,
     read |-> [r \in Readers |-> 0], waited |-> FALSE, err |-> err,
     code |-> 0]

InitStream ==
    /\ scope = "executeWithProgress"
    /\ arg \in StreamInputs
    /\ pc = "call"
    /\ cfg = BaseConfig
    /\ exists = AllDevices
    /\ mounted = {}
    /\ InitCommon

\* StdoutPipe, StderrPipe or cmd.Start fails: an I/O error, nothing is read
StreamStartFails ==
    /\ scope = "executeWithProgress"
    /\ pc = "call"
    /\ \E what \in {"pipe", "start"} : ret' = StreamFrame("idle", what)
    /\ pc' = "done"
    /\ UNCHANGED <<arg, cfg, exists, scope, idx, sp, cancelled, mountPoints,
                   mounted, cmds, started, finished, cancelAt, warned, result,
                   fatal, exitCode, cleanupIdx, cleanupErr, prog>>

\* cmd.Start succeeds and both scanOutput goroutines are handed to the group
StreamStart ==
    /\ scope = "executeWithProgress"
    /\ pc = "call"
    /\ ret' = StreamFrame("scanning", "none")
    /\ pc' = "wgwait"
    /\ UNCHANGED <<arg, cfg, exists, scope, idx, sp, cancelled, mountPoints,
                   mounted, cmds, started, finished, cancelAt, warned, result,
                   fatal, exitCode, cleanupIdx, cleanupErr, prog>>

\* scanOutput: scanner.Scan() yields a line, tracker.ProcessLine(line)
ScanLine(r) ==
    /\ scope = "executeWithProgress"
    /\ pc \in {"wgwait", "cmdwait", "done"}
    /\ ret[r] = "scanning"
    /\ ret.read[r] < arg[r]
    /\ ret' = [ret EXCEPT !.read[r] = @ + 1]
    /\ UNCHANGED <<arg, cfg, exists, scope, pc, idx, sp, cancelled,
                   mountPoints, mounted, cmds, started, finished, cancelAt,
                   warned, result, fatal, exitCode, cleanupIdx, cleanupErr,
                   prog>>

\* scanOutput: the pipe is at end of file, scanner.Err() is nil
ScanEOF(r) ==
    /\ scope = "executeWithProgress"
    /\ pc \in {"wgwait", "cmdwait", "done"}
    /\ ret[r] = "scanning"
    /\ ret.read[r] = arg[r]
    /\ ret' = [ret EXCEPT ![r] = "ok"]
    /\ UNCHANGED <<arg, cfg, exists, scope, pc, idx, sp, cancelled,
                   mountPoints, mounted, cmds, started, finished, cancelAt,
                   warned, result, fatal, exitCode, cleanupIdx, cleanupErr,
                   prog>>

\* scanOutput: the read fails or a line is too long, scanner.Err() is not nil
ScanFails(r) ==
    /\ scope = "executeWithProgress"
    /\ pc \in {"wgwait", "cmdwait", "done"}
    /\ ret[r] = "scanning"
    /\ ret' = [ret EXCEPT ![r] = "failed"]
    /\ UNCHANGED <<arg, cfg, exists, scope, pc, idx, sp, cancelled,
                   mountPoints, mounted, cmds, started, finished, cancelAt,
                   warned, result, fatal, exitCode, cleanupIdx, cleanupErr,
                   prog>>

\* a group that lets Wait return once one goroutine has returned
wgWaitFirst(f) == \E r \in Readers : f[r] \in {"ok", "failed"}

\* errgroup.Group.Wait returns when every goroutine of the group has returned
wgWait(f) == \A r \in Readers : f[r] \in {"ok", "failed"}

\* wg.Wait() returns; its error is the first non-nil error of a goroutine
StreamWgWait ==
    /\ scope = "executeWithProgress"
    /\ pc = "wgwait"
    /\ wgWait(ret)
    /\ IF \E r \in Readers : ret[r] = "failed"
       THEN /\ ret' = [ret EXCEPT !.err = "read"]
            /\ pc' = "done"
       ELSE /\ ret' = ret
            /\ pc' = "cmdwait"
    /\ UNCHANGED <<arg, cfg, exists, scope, idx, sp, cancelled, mountPoints,
                   mounted, cmds, started, finished, cancelAt, warned, result,
                   fatal, exitCode, cleanupIdx, cleanupErr, prog>>

\* cmd.Wait(), then getExitCode and parseError on a failure
StreamCmdWait ==
    /\ scope = "executeWithProgress"
    /\ pc = "cmdwait"
    /\ ret' = [ret EXCEPT !.waited = TRUE,
                          !.err = IF arg.exit = 0 THEN "nil" ELSE "classified",
                          !.code = IF arg.exit = 0 THEN 0
                                   ELSE getExitCode(arg.exit)]
    /\ pc' = "done"
    /\ UNCHANGED <<arg, cfg, exists, scope, idx, sp, cancelled, mountPoints,
                   mounted, cmds, started, finished, cancelAt, warned, result,
                   fatal, exitCode, cleanupIdx, cleanupErr, prog>>

NextStream ==
    \/ StreamStartFails
    \/ StreamStart
    \/ \E r \in Readers : ScanLine(r)
    \/ \E r \in Readers : ScanEOF(r)
    \/ \E r \in Readers : ScanFails(r)
    \/ StreamWgWait
    \/ StreamCmdWait

SpecStream == InitStream /\ [][NextStream]_vars

TypeOK ==
    /\ pc \in {"load", "check", "run", "cleanup", "returned", "exited", "done",
              "call", "parsed", "wgwait", "cmdwait"}
    /\ ret.fn \in {"none", "Parse", "GetPartitionNames", "ParseFilesystem",
                 "Format", "executeWithProgress"}
    /\ idx \in 1..Len(buildStages)
    /\ exitCode \in {NoExit} \cup 0..255
    /\ result.kind \in {"none", "ok", "err", "cancelled"}


(***************************************************************************)
(* Properties of a whole run (Spec)                                        *)
(***************************************************************************)

\* C1: cleanup runs on every path by which a run ends: once a mount point
\* has been recorded, the process never exits without Installer.cleanup
\* having attempted an unmount on it.
C1_CleanupOnEveryExit ==
    pc = "exited" =>
        \A i \in DOMAIN mountPoints :
            \E j \in DOMAIN cmds :
                /\ cmds[j].stage = 0
                /\ cmds[j].cmd = "umount"
                /\ cmds[j].mp = mountPoints[i]

\* C2: when Execute of a required stage returns an error, no later stage is
\* started and Install returns an error that names the failed stage.
C2_RequiredFailureAborts ==
    (fatal.how \in {"return", "check"} /\ buildStages[fatal.stage].Required) =>
        /\ result.kind = "err"
        /\ result.stage = buildStages[fatal.stage].Name
        /\ started[Len(started)] = fatal.stage
        /\ \A j \in DOMAIN cmds : cmds[j].stage <= fatal.stage
        /\ pc \in {"cleanup", "returned", "exited"}

\* a run that ended because installing the base packages failed
C2_Witness ==
    /\ pc = "exited"
    /\ result.kind = "err"
    /\ result.stage = "Base System"
    /\ fatal.how = "return"
    /\ fatal.stage = 2

\* C3: a failure of any kind inside an optional stage (Desktop Environment,
\* Additional Packages) is only logged as a warning: the later stages still
\* run and, all required stages succeeding, the run ends with exit code 0.
C3_OptionalFailureOnlyWarns ==
    (/\ pc = "exited"
     /\ ~cancelled
     /\ fatal.how # "none"
     /\ ~buildStages[fatal.stage].Required) =>
        /\ result.kind = "ok"
        /\ exitCode = 0
        /\ started[Len(started)] = Len(buildStages)
        /\ \E w \in warned : w.stage = fatal.stage /\ w.msg = "failed (non-critical)"

\* C4: cleanup attempts the unmounts in the exact reverse of the order in
\* which the mount points were recorded, and leaves none out.
C4_CleanupReverseOrder ==
    pc \in {"cleanup", "returned", "exited"} =>
        LET n == Len(mountPoints)
            attempts == SelectSeq(cmds, LAMBDA c : c.stage = 0 /\ c.flag = "")
        IN  /\ Len(attempts) <= n
            /\ \A k \in DOMAIN attempts : attempts[k].mp = mountPoints[n + 1 - k]
            /\ \A j \in DOMAIN cmds :
                  (cmds[j].stage = 0 /\ cmds[j].flag = "-l") =>
                      /\ j > 1
                      /\ cmds[j - 1].stage = 0
                      /\ cmds[j - 1].flag = ""
                      /\ cmds[j - 1].mp = cmds[j].mp
            /\ pc = "returned" => Len(attempts) = n

\* Install has returned after unmounting /mnt and the four chroot mounts
C4_Witness ==
    /\ pc = "returned"
    /\ Len(mountPoints) = 5
    /\ mountPoints[1] = MNT
    /\ \E j \in DOMAIN cmds : cmds[j].stage = 0 /\ cmds[j].mp = MNT

\* C5: stages execute strictly sequentially in the fixed declared order: a
\* stage never starts before the previous one has returned, none is skipped
\* while the run continues, and none executes more than once.
C5_StagesSequential ==
    LET DeclaredOrder ==
            <<"Partition Setup", "Base System", "Chroot Environment",
              "System Keyring", "File System Table", "Bootloader",
              "Locale Configuration", "Network Configuration", "User Accounts",
              "Desktop Environment", "Additional Packages",
              "System Finalization">>
    IN  /\ Len(started) <= Len(DeclaredOrder)
        /\ \A i \in DOMAIN started :
              /\ started[i] = i
              /\ buildStages[started[i]].Name = DeclaredOrder[i]
        /\ Len(finished) \in {Len(started) - 1, Len(started)}
        /\ finished = SubSeq(started, 1, Len(finished))
        /\ pc = "run" => Len(finished) = Len(started) - 1
        /\ pc = "check" => Len(finished) = Len(started) /\ idx = Len(started) + 1
        /\ \A j \in 1..(Len(cmds) - 1) :
              \/ cmds[j + 1].stage = 0
              \/ cmds[j].stage # 0 /\ cmds[j].stage <= cmds[j + 1].stage

\* a successful run: all twelve stages were executed
C5_Witness ==
    /\ pc = "exited"
    /\ result.kind = "ok"
    /\ Len(started) = 12
    /\ Len(finished) = 12

\* C6: cancellation is checked exactly at stage boundaries. Cancelled when a
\* stage is about to start: that stage and the later ones are not started
\* and Install returns the cancellation error. Cancelled while a stage
\* runs: the stage is not interrupted and the cancellation takes effect
\* only before the next stage.
C6_CancelAtBoundaries ==
    /\ result.kind = "cancelled" => cancelled /\ Len(started) = Len(finished)
    /\ cancelAt.pc = "check" =>
          /\ \A i \in DOMAIN started : started[i] < cancelAt.idx
          /\ pc # "check" => result.kind = "cancelled"
    /\ cancelAt.pc = "run" =>
          LET k == cancelAt.idx
              failed == fatal.how # "none" /\ fatal.stage = k
          IN  /\ \A i \in DOMAIN started : started[i] <= k
              /\ (Len(finished) >= k /\ ~failed) =>
                    \/ sp > Len(prog)
                    \/ prog[sp].on = "retnil"
              /\ (/\ pc \in {"cleanup", "returned", "exited"}
                  /\ k < Len(buildStages)
                  /\ ~(failed /\ (fatal.how = "crash" \/ buildStages[k].Required))) =>
                    result.kind = "cancelled"

\* the deadline passed while the chroot stage ran; the stage ran to its end
\* and the run was cancelled before the keyring stage
C6_Witness ==
    /\ pc = "exited"
    /\ result.kind = "cancelled"
    /\ cancelAt = [pc |-> "run", idx |-> 3]
    /\ Len(finished) = 3
    /\ Len(mountPoints) = 5
    /\ sp > Len(prog)

\* C7: the exit code is 0 exactly when the run succeeds; on a failure it is
\* the exit code of the failed external command where there is one, else 1.
C7_ExitCode ==
    pc = "exited" =>
        /\ (exitCode = 0) <=> (result.kind = "ok")
        /\ result.kind # "ok" =>
              exitCode = IF result.kind # "cancelled" /\ fatal.rc >= 1
                         THEN fatal.rc ELSE 1

(***************************************************************************)
(* Properties of the Partition Setup stage (SpecPartition)                 *)
(***************************************************************************)

\* C8: in the manual flow, a failing mkfs or mount of a spec's block device
\* makes Partition return an error naming that device, and nothing is
\* formatted or mounted after it.
C8_ManualFailureNamesDevice ==
    (/\ ParsePartitionMode(cfg.mode).mode = "manual"
     /\ fatal.how # "none"
     /\ fatal.cmd \in {"mkfs.ext4", "mkfs.fat", "mkfs.btrfs", "mkfs.xfs", "mount"}) =>
        /\ pc = "done"
        /\ result.kind = "err"
        /\ fatal.dev \in result.names
        /\ cmds[Len(cmds)].cmd = fatal.cmd
        /\ cmds[Len(cmds)].dev = fatal.dev

\* C9: a boot-flag failure never aborts partitioning: whether the partition
\* number is invalid, the base device is missing or `parted set` exits
\* non-zero, the flow continues.
C9_BootFlagFailureNonFatal ==
    (/\ fatal.how # "none"
     /\ fatal.cmd = "parted"
     /\ fatal.flag \in {"esp", "boot"}) =>
        /\ pc # "exited"
        /\ \E w \in warned : w.msg = "Failed to set boot flags"

\* C10: in the manual flow a spec classified NoFormat is not formatted, is
\* still mounted at its mountpoint, and gets no boot-flag command.
C10_NoFormatStillMounted ==
    (/\ pc = "done"
     /\ result.kind = "ok"
     /\ ParsePartitionMode(cfg.mode).mode = "manual") =>
        LET specs == filterValidPartitions(parsePartitions(cfg.partitions).partitions)
        IN  \A i \in DOMAIN specs :
                (/\ ParseFilesystem(specs[i].Filesystem) = "NoFormat"
                 /\ \A j \in DOMAIN specs :
                        specs[j].BlockDevice = specs[i].BlockDevice => j = i) =>
                    /\ ~\E c \in DOMAIN cmds :
                           /\ cmds[c].dev = specs[i].BlockDevice
                           /\ cmds[c].cmd \in {"mkfs.ext4", "mkfs.fat",
                                               "mkfs.btrfs", "mkfs.xfs"}
                    /\ \E c \in DOMAIN cmds :
                           /\ cmds[c].cmd = "mount"
                           /\ cmds[c].dev = specs[i].BlockDevice
                           /\ cmds[c].mp = specs[i].Mountpoint
                    /\ ~\E c \in DOMAIN cmds :
                           /\ cmds[c].cmd = "parted"
                           /\ cmds[c].flag \in {"esp", "boot"}
                           /\ cmds[c].dev = Parse(specs[i].BlockDevice).device
                           /\ cmds[c].num = Parse(specs[i].BlockDevice).partition

\* C11: after a successful automatic partitioning exactly two partitions
\* have been created; partition 1 is formatted fat32 and flagged esp when
\* EFI (ext4 and boot when BIOS), partition 2 is formatted ext4, partition 2
\* is mounted at /mnt and partition 1 at /mnt/boot.
C11_AutoLayout ==
    (/\ pc = "done"
     /\ result.kind = "ok"
     /\ ParsePartitionMode(cfg.mode).mode = "auto") =>
        LET device == normalizeDevicePath(cfg.device)
            p1 == device \o (IF isSpecialDevice(device) THEN <<"p", "1">> ELSE <<"1">>)
            p2 == device \o (IF isSpecialDevice(device) THEN <<"p", "2">> ELSE <<"2">>)
            made == {j \in DOMAIN cmds :
                        /\ cmds[j].cmd = "parted"
                        /\ cmds[j].dev = device
                        /\ cmds[j].flag \in {"mkpart ESP fat32 1MiB 513MiB",
                                             "mkpart root ext4 513MiB 100%",
                                             "mkpart primary ext4 1MiB 513MiB",
                                             "mkpart primary ext4 513MiB 100%"}}
            mkfs == {"mkfs.ext4", "mkfs.fat", "mkfs.btrfs", "mkfs.xfs"}
            formats(d) == {cmds[j].cmd : j \in {i \in DOMAIN cmds :
                                cmds[i].cmd \in mkfs /\ cmds[i].dev = d}}
            mounts(d) == {cmds[j].mp : j \in {i \in DOMAIN cmds :
                                cmds[i].cmd = "mount" /\ cmds[i].dev = d}}
            flags == {<<cmds[j].dev, cmds[j].num, cmds[j].flag>> :
                        j \in {i \in DOMAIN cmds :
                                cmds[i].cmd = "parted" /\ cmds[i].num # EMPTY}}
        IN  /\ Cardinality(made) = 2
            /\ formats(p1) = {IF cfg.efi THEN "mkfs.fat" ELSE "mkfs.ext4"}
            /\ formats(p2) = {"mkfs.ext4"}
            /\ flags = {<<device, <<"1">>, IF cfg.efi THEN "esp" ELSE "boot">>}
            /\ mounts(p2) = {MNT}
            /\ mounts(p1) = {MNT_BOOT}
            /\ {MNT, MNT_BOOT} \subseteq mounted

\* an EFI NVMe disk partitioned automatically with success
C11_Witness ==
    /\ pc = "done"
    /\ result.kind = "ok"
    /\ ParsePartitionMode(cfg.mode).mode = "auto"
    /\ cfg.efi
    /\ normalizeDevicePath(cfg.device) = NVME
    /\ \E j \in DOMAIN cmds : cmds[j].cmd = "mkfs.fat" /\ cmds[j].dev = NVMEP1
    /\ MNT_BOOT \in mounted

\* C12: in the manual flow a missing block device is detected before any
\* destructive command: when the stage fails because a spec's block device
\* does not exist, no mkfs command has been issued for any spec.
C12_MissingDeviceBeforeMkfs ==
    (/\ ParsePartitionMode(cfg.mode).mode = "manual"
     /\ result.kind = "err"
     /\ fatal.how = "check"
     /\ fatal.cmd = "blockdevice does not exist") =>
        \A j \in DOMAIN cmds :
            cmds[j].cmd \notin {"mkfs.ext4", "mkfs.fat", "mkfs.btrfs", "mkfs.xfs"}

\* C13: a failing parted command of partition-table creation (mklabel or
\* either mkpart) is fatal to the Partition Setup stage: its failure is
\* never ignored, the run does not succeed, and after the failing command
\* no parted, mkfs or mount command is issued.
C13_TableFailureFatal ==
    LET isTable(c) ==
            /\ c.cmd = "parted"
            /\ c.flag \in {"mklabel gpt", "mklabel msdos",
                           "mkpart ESP fat32 1MiB 513MiB",
                           "mkpart root ext4 513MiB 100%",
                           "mkpart primary ext4 1MiB 513MiB",
                           "mkpart primary ext4 513MiB 100%"}
    IN  /\ (pc = "run" /\ sp <= Len(prog) /\ isTable(prog[sp])) =>
              prog[sp].on \in {"eval", "ret"}
        /\ (fatal.how # "none" /\ isTable(fatal)) =>
              /\ pc \in {"cleanup", "returned", "exited"}
              /\ result.kind \in {"none", "err"}
              /\ pc = "exited" => exitCode # 0
              /\ started = <<1>>
              /\ \E k \in DOMAIN cmds :
                    /\ cmds[k].cmd = fatal.cmd
                    /\ cmds[k].flag = fatal.flag
                    /\ cmds[k].dev = fatal.dev
                    /\ \A j \in (k + 1)..Len(cmds) : cmds[j].cmd = "umount"

\* the second mkpart of an automatic EFI partitioning failed
C13_Witness ==
    /\ pc = "exited"
    /\ fatal.cmd = "parted"
    /\ fatal.flag = "mkpart root ext4 513MiB 100%"
    /\ fatal.how = "crash"
    /\ exitCode = 2
    /\ Len(cmds) >= 3
    /\ cmds[Len(cmds) - 1].flag = "mkpart ESP fat32 1MiB 513MiB"

\* C14: a configuration that fails validation (a required field missing, an
\* invalid bootloader type, a user without name or password, a partitions
\* entry without exactly two ':') makes ReadConfig return an error before
\* the pipeline starts: no stage executes and no external command is issued.
C14_InvalidConfigRejected ==
    LET colons(e) == Cardinality({k \in DOMAIN e : e[k] = ":"})
        defective ==
            \/ cfg.device = EMPTY
            \/ cfg.bootloader \notin {"grub-efi", "grub-legacy"}
            \/ "" \in {cfg.location, cfg.keymap, cfg.timezone, cfg.hostname,
                       cfg.rootpass, cfg.kernel}
            \/ cfg.locale = << >>
            \/ cfg.users = << >>
            \/ \E i \in DOMAIN cfg.users :
                  cfg.users[i].Name = "" \/ cfg.users[i].Password = ""
            \/ \E i \in DOMAIN cfg.partitions : colons(cfg.partitions[i]) # 2
    IN  (scope = "install" /\ defective) =>
            /\ pc \in {"load", "returned", "exited"}
            /\ started = << >>
            /\ cmds = << >>
            /\ mountPoints = << >>
            /\ pc # "load" => result.kind = "err"
            /\ pc = "exited" => exitCode = 1

\* a partitions entry with a single ':' was rejected and the process exited
C14_Witness ==
    /\ pc = "exited"
    /\ exitCode = 1
    /\ result.msg = "config validation failed"
    /\ cfg.partitions = <<MNT \o <<":">> \o SDA2>>
    /\ cmds = << >>

\* C15: the manual flow processes the retained specs in the order of a
\* stable sort by ascending mountpoint length: of two specs on different
\* devices the one processed first has the shorter mountpoint, or one of
\* equal length and the earlier place in the configuration.
C15_StableLengthOrder ==
    ParsePartitionMode(cfg.mode).mode = "manual" =>
        LET specs == SelectSeq(parsePartitions(cfg.partitions).partitions,
                               LAMBDA p : p.BlockDevice # EMPTY)
            distinct == \A a, b \in DOMAIN specs :
                            specs[a].BlockDevice = specs[b].BlockDevice => a = b
            \* the defensive unmount opens the processing of a spec
            opens(c, a) == /\ cmds[c].cmd = "umount"
                           /\ cmds[c].stage = 1
                           /\ cmds[c].dev = specs[a].BlockDevice
        IN  distinct =>
                \A c, d \in DOMAIN cmds : \A a, b \in DOMAIN specs :
                    (c < d /\ opens(c, a) /\ opens(d, b)) =>
                        \/ Len(specs[a].Mountpoint) < Len(specs[b].Mountpoint)
                        \/ /\ Len(specs[a].Mountpoint) = Len(specs[b].Mountpoint)
                           /\ a < b

\* C16: a spec with an empty block device is excluded from manual
\* processing: the stage never fails with "empty blockdevice", no umount,
\* mkfs, mount or boot-flag command is issued without a device, and the
\* steps the stage runs are those of the configuration without such specs.
C16_EmptyDeviceExcluded ==
    (/\ ParsePartitionMode(cfg.mode).mode = "manual"
     /\ ~parsePartitions(cfg.partitions).err) =>
        LET kept == SelectSeq(parsePartitions(cfg.partitions).partitions,
                              LAMBDA p : p.BlockDevice # EMPTY)
        IN  /\ ~(fatal.how = "check" /\ fatal.cmd = "empty blockdevice")
            /\ \A c \in DOMAIN cmds :
                  (/\ cmds[c].stage = 1
                   /\ cmds[c].cmd \in {"umount", "mkfs.ext4", "mkfs.fat",
                                       "mkfs.btrfs", "mkfs.xfs", "mount",
                                       "parted"}) =>
                        cmds[c].dev # EMPTY \/ cmds[c].mp # EMPTY
            /\ (pc = "run" /\ idx = 1) =>
                  \E pre \in {<< >>, <<Warn("Using default partition mode", EMPTY)>>} :
                      prog = pre \o Partition(normalizeDevicePath(cfg.device),
                                              "manual", cfg.efi, kept)
                                 \o <<Record(MNT)>>

\* a configuration listing a spec without block device before /mnt/boot on
\* /dev/sda1: the stage succeeds with /dev/sda1 formatted and mounted
C16_Witness ==
    /\ pc = "done"
    /\ result.kind = "ok"
    /\ ParsePartitionMode(cfg.mode).mode = "manual"
    /\ cfg.partitions = <<RawSpec(MNT, EMPTY, W_ext4),
                          RawSpec(MNT_BOOT, SDA1, W_fat32)>>
    /\ \E c \in DOMAIN cmds : cmds[c].cmd = "mkfs.fat" /\ cmds[c].dev = SDA1
    /\ MNT_BOOT \in mounted

\* C17 as stated: for every string made of a base name containing "nvme" or
\* "mmcblk", a 'p' and a partition number in digits, Parse followed by
\* GetPartitionNames with the recovered device and number gives back the
\* string.
C17_SpecialRoundTripAnyDigits ==
    (/\ ret.fn = "GetPartitionNames"
     /\ \E i \in 1..Len(arg) :
            /\ arg[i] = "p"
            /\ isSpecialDevice(SubSeq(arg, 1, i - 1))
            /\ i < Len(arg)
            /\ AllDigits(SubSeq(arg, i + 1, Len(arg)))) =>
        ret.names = <<arg>>

\* C17: for every string made of a base name containing "nvme" or "mmcblk",
\* a 'p' and a partition number written in decimal without leading zero,
\* Parse recovers the base name and the number, and GetPartitionNames with
\* the recovered device and number gives back the string.
C17_SpecialRoundTrip ==
    \A i \in 1..Len(arg) :
        (/\ arg[i] = "p"
         /\ isSpecialDevice(SubSeq(arg, 1, i - 1))
         /\ i < Len(arg)
         /\ AllDigits(SubSeq(arg, i + 1, Len(arg)))
         /\ (arg[i + 1] # "0" \/ i + 1 = Len(arg))) =>
            /\ ret.fn \in {"Parse", "GetPartitionNames"} =>
                  /\ ret.device = SubSeq(arg, 1, i - 1)
                  /\ ret.partition = SubSeq(arg, i + 1, Len(arg))
            /\ ret.fn = "GetPartitionNames" => ret.names = <<arg>>

\* /dev/nvme0n1p12 has been parsed and rebuilt
C17_Witness ==
    /\ arg = NVME \o <<"p", "1", "2">>
    /\ ret.fn = "GetPartitionNames"
    /\ ret.device = NVME
    /\ ret.names = <<NVME \o <<"p", "1", "2">>>>

\* C18 as stated: for every string that is not NVMe/MMC style, Parse
\* returns the longest trailing run of digits as partition number and what
\* precedes it as device when the string ends in a digit, and the whole
\* string with partition number "1" when it does not.
C18_StandardSplitAnyString ==
    (ret.fn \in {"Parse", "GetPartitionNames"} /\ ~isSpecialDevice(arg)) =>
        LET n == Len(arg)
            \* number of characters before the trailing run of digits
            k == CHOOSE c \in 0..n :
                    /\ AllDigits(SubSeq(arg, c + 1, n))
                    /\ c > 0 => arg[c] \notin Digits
        IN  IF k < n
            THEN ret.device = SubSeq(arg, 1, k) /\ ret.partition = SubSeq(arg, k + 1, n)
            ELSE ret.device = arg /\ ret.partition = <<"1">>

\* C18: for every string that is not NVMe/MMC style and has at least one
\* character before its trailing run of digits, Parse returns that run as
\* partition number and what precedes it as device; for a string with no
\* trailing digit it returns the whole string and partition number "1"; of
\* a string of digits only the first character is the device, and the rest
\* the partition number ("1" when there is no rest).
C18_StandardSplit ==
    (ret.fn \in {"Parse", "GetPartitionNames"} /\ ~isSpecialDevice(arg)) =>
        LET n == Len(arg)
            k == CHOOSE c \in 0..n :
                    /\ AllDigits(SubSeq(arg, c + 1, n))
                    /\ c > 0 => arg[c] \notin Digits
        IN  CASE 0 < k /\ k < n ->
                    /\ ret.device = SubSeq(arg, 1, k)
                    /\ ret.partition = SubSeq(arg, k + 1, n)
              [] k = n -> ret.device = arg /\ ret.partition = <<"1">>
              [] k = 0 /\ n > 1 ->
                    /\ ret.device = <<arg[1]>>
                    /\ ret.partition = Tail(arg)
              [] k = 0 /\ n = 1 -> ret.device = arg /\ ret.partition = <<"1">>

\* /dev/sda12 has been split into /dev/sda and 12
C18_Witness ==
    /\ arg = SDA \o <<"1", "2">>
    /\ ret.fn = "Parse"
    /\ ret.device = SDA
    /\ ret.partition = <<"1", "2">>

\* C19: ParseFilesystem is total: whatever the string, empty, blank or
\* garbage, it returns one of Ext4, Fat32, Btrfs, Xfs, NoFormat; a string
\* that, trimmed and lower-cased, is neither a canonical filesystem name nor
\* a way of asking for no formatting yields Ext4.
C19_ParseFilesystemTotal ==
    (scope = "ParseFilesystem" /\ pc = "done") =>
        /\ ret.fn = "ParseFilesystem"
        /\ ret.fs \in {"Ext4", "Fat32", "Btrfs", "Xfs", "NoFormat"}
        /\ arg \in GarbageFilesystems => ret.fs = "Ext4"
        /\ (LET normalized == TrimSpace(ToLower(arg)) IN
            /\ normalized \notin {W_ext4, W_fat32, W_btrfs, W_xfs, W_noformat,
                                  W_no_dash_format, W_no_format, W_dont_format}
            /\ ~isNoFormatVariation(normalized)) => ret.fs = "Ext4"

\* "ntfs", which names no supported filesystem, has been classified Ext4
C19_Witness ==
    /\ scope = "ParseFilesystem"
    /\ pc = "done"
    /\ arg = <<"n", "t", "f", "s">>
    /\ ret.fs = "Ext4"

\* C20: each of "noformat", "no-format", "no format", "don't format",
\* "Do Not Format" and "skip formatting" is classified NoFormat, as written,
\* in lower case and in upper case, with and without surrounding white space.
C20_NoFormatPhrases ==
    (scope = "ParseFilesystem" /\ pc = "done" /\ arg \in NoFormatSpellings) =>
        ret.fs = "NoFormat"

\* "SKIP FORMATTING" between a tab and a line feed has been classified
C20_Witness ==
    /\ scope = "ParseFilesystem"
    /\ pc = "done"
    /\ arg = <<"\t", " ">> \o ToUpper(W_skip_formatting) \o <<"\n">>
    /\ ret.fs = "NoFormat"

\* C21: FilesystemFormatter.Format called with NoFormat issues no command
\* and returns nil, whatever the block device, existing or not: the process
\* does not exit.
C21_NoFormatIsNoOp ==
    (scope = "Format" /\ ret.fn = "Format" /\ ret.fsType = "NoFormat") =>
        /\ cmds = << >>
        /\ ret.err = ""
        /\ pc = "done"
        /\ exitCode = NoExit

\* Format has returned from a NoFormat call on /dev/sda12, which is absent
C21_Witness ==
    /\ scope = "Format"
    /\ arg = SDA \o <<"1", "2">>
    /\ arg \notin exists
    /\ ret.fn = "Format"
    /\ ret.fsType = "NoFormat"
    /\ pc = "done"

\* C22: the mount record lists every mount point the run has mounted: when
\* a stage has returned, between two stages or on entering cleanup, every
\* mount point that is mounted is in Installer.mountPoints, and the record
\* names no mount point twice.
C22_MountRecordComplete ==
    (scope = "install" /\ pc \in {"check", "cleanup"} /\ cleanupIdx <= 1) =>
        /\ \A m \in mounted : \E i \in DOMAIN mountPoints : mountPoints[i] = m
        /\ \A i, j \in DOMAIN mountPoints :
              mountPoints[i] = mountPoints[j] => i = j

\* C23: when the Partition Setup stage returns an error after it has
\* mounted partitions, the cleanup of the run attempts to unmount them:
\* once Install has returned, every mount point the stage mounted has been
\* the target of an umount issued by cleanup.
C23_FailedPartitionUnmounted ==
    (/\ scope = "install"
     /\ pc \in {"returned", "exited"}
     /\ result.kind = "err"
     /\ result.stage = "Partition Setup"
     /\ fatal.how \in {"check", "return"}) =>
        \A c \in DOMAIN cmds :
            (cmds[c].cmd = "mount" /\ cmds[c].stage = 1) =>
                \E d \in DOMAIN cmds :
                    /\ d > c
                    /\ cmds[d].stage = 0
                    /\ cmds[d].cmd = "umount"
                    /\ cmds[d].mp = cmds[c].mp

\* C24: a configured partition mode that, trimmed and lower-cased, is
\* neither "auto" nor "manual" makes the Partition Setup stage fail before
\* any destructive command: no parted or mkfs command is issued, and the
\* stage does not return success.
C24_UnknownModeRejected ==
    ToLower(TrimSpace(cfg.mode)) \notin {W_auto, W_manual} =>
        /\ \A c \in DOMAIN cmds :
              cmds[c].cmd \notin {"parted", "mkfs.ext4", "mkfs.fat",
                                  "mkfs.btrfs", "mkfs.xfs"}
        /\ pc = "done" => result.kind = "err"

\* C25: a required stage reports the failure of any of its steps: every
\* step in which SetLocale, SetKeyboard, SetTimezone or RootPass fails
\* makes the stage return an error, so that the run aborts, naming the
\* stage, and enters cleanup.
C25_RequiredStepFailureReported ==
    [][(/\ scope = "install"
        /\ pc = "run"
        /\ sp <= Len(prog)
        /\ prog[sp].cmd \in {"SetLocale", "SetKeyboard", "SetTimezone", "RootPass"}
        /\ StepFailIgnored \/ StepFailReturn \/ StepFailCrash) =>
            /\ pc' = "cleanup"
            /\ result'.kind = "err"
            /\ result'.stage = buildStages[idx].Name]_vars

\* C26: in the automatic flow the boot flag is set on partition 1 of the
\* configured device, whatever its name: every flag command of the stage
\* is 'parted -s <device> set 1 <flag> on' with esp for EFI and boot for
\* BIOS, setting the flag is never given up with a warning, and once a
\* partition is being formatted the flag command has been issued.
C26_AutoBootFlagOnBaseDevice ==
    (scope = "partition" /\ ParsePartitionMode(cfg.mode).mode = "auto") =>
        LET device == normalizeDevicePath(cfg.device)
            flagCmds == {c \in DOMAIN cmds :
                            cmds[c].cmd = "parted" /\ cmds[c].num # EMPTY}
        IN  /\ \A c \in flagCmds :
                  /\ cmds[c].dev = device
                  /\ cmds[c].num = <<"1">>
                  /\ cmds[c].flag = IF cfg.efi THEN "esp" ELSE "boot"
            /\ \A w \in warned : w.msg # "Failed to set boot flags"
            /\ (\E c \in DOMAIN cmds :
                   cmds[c].cmd \in {"mkfs.ext4", "mkfs.fat"}) => flagCmds # {}

\* C27: the automatic flow issues its steps in the order table creation,
\* settle wait, boot flag, format of partition 1, format of partition 2,
\* mount of partition 2 at /mnt, creation of /mnt/boot, mount of partition 1
\* at /mnt/boot: no step of a later kind precedes one of an earlier kind,
\* nothing is written to a device found missing, and a successful run has
\* performed every one of these steps.
C27_AutoStepOrder ==
    (scope = "partition" /\ ParsePartitionMode(cfg.mode).mode = "auto") =>
        LET device == normalizeDevicePath(cfg.device)
            p1 == PartitionName(device, 1)
            p2 == PartitionName(device, 2)
            mkfs == {"mkfs.ext4", "mkfs.fat", "mkfs.btrfs", "mkfs.xfs"}
            rank(c) ==
                CASE c.cmd = "parted" /\ c.num = EMPTY -> 1
                  [] c.cmd = "KernelWaitTime" -> 2
                  [] c.cmd = "parted" /\ c.num # EMPTY -> 3
                  [] c.cmd \in mkfs /\ c.dev = p1 -> 4
                  [] c.cmd \in mkfs /\ c.dev = p2 -> 5
                  [] c.cmd = "mount" /\ c.dev = p2 /\ c.mp = MNT -> 6
                  [] c.cmd = "mkdir" /\ c.mp = MNT_BOOT -> 7
                  [] c.cmd = "mount" /\ c.dev = p1 /\ c.mp = MNT_BOOT -> 8
                  [] c.cmd \in mkfs \cup {"mount"} -> 9
                  [] OTHER -> 0
        IN  /\ \A c, d \in DOMAIN cmds :
                  (c < d /\ rank(cmds[c]) # 0 /\ rank(cmds[d]) # 0) =>
                      rank(cmds[c]) <= rank(cmds[d])
            /\ \A c \in DOMAIN cmds : rank(cmds[c]) # 9
            /\ device \notin exists =>
                  \A c \in DOMAIN cmds : rank(cmds[c]) = 0
            /\ (pc = "done" /\ result.kind = "ok") =>
                  \A r \in 1..8 : \E c \in DOMAIN cmds : rank(cmds[c]) = r

\* /dev/sda has been partitioned automatically for BIOS with success: the
\* boot flag was set before the first mkfs and /mnt/boot is mounted
C27_Witness ==
    /\ scope = "partition"
    /\ pc = "done"
    /\ result.kind = "ok"
    /\ ParsePartitionMode(cfg.mode).mode = "auto"
    /\ normalizeDevicePath(cfg.device) = SDA
    /\ ~cfg.efi
    /\ \E c, d \in DOMAIN cmds :
          /\ c < d
          /\ cmds[c].cmd = "parted" /\ cmds[c].flag = "boot"
          /\ cmds[d].cmd = "mkfs.ext4" /\ cmds[d].dev = SDA1
    /\ {MNT, MNT_BOOT} \subseteq mounted

\* C28: when a command's output is streamed, cmd.Wait and the classification
\* of its exit status happen only after the stdout reader and the stderr
\* reader have both finished; if either reader failed, the call returns the
\* I/O error of reading and the exit status is never interpreted.
C28_ReadersBeforeExitStatus ==
    (scope = "executeWithProgress" /\ ret.fn = "executeWithProgress") =>
        /\ (pc = "cmdwait" \/ ret.waited \/ ret.err \in {"nil", "classified"})
               => \A r \in Readers : ret[r] = "ok"
        /\ (pc = "done" /\ \E r \in Readers : ret[r] = "failed")
               => (ret.err = "read" /\ ~ret.waited)
        /\ (\E r \in Readers : ret[r] = "failed") => ~ret.waited

\* a command that wrote to both pipes and failed: both readers reached end
\* of file, then its exit status was classified
C28_Witness ==
    /\ scope = "executeWithProgress"
    /\ ret.fn = "executeWithProgress"
    /\ pc = "done"
    /\ ret.waited
    /\ arg.exit = 2
    /\ ret.err = "classified"
    /\ ret.code = 2
    /\ \A r \in Readers : ret[r] = "ok" /\ ret.read[r] = arg[r] /\ arg[r] > 0

\* the umount commands the deferred cleanup has issued so far
CleanupIssued == SelectSeq(cmds, LAMBDA c : c.stage = 0)

\* C29 (state part): for each recorded mount point, taken last first, cleanup
\* issues the normal umount first; a lazy `umount -l` comes only directly
\* after the normal umount of the same mount point, while its failure is
\* pending; and whatever the unmounts did, the normal umount of every
\* recorded mount point up to the current one has been issued, all of them
\* once cleanup has returned.
C29_NormalThenLazy ==
    (scope = "install" /\ pc \in {"cleanup", "returned"}) =>
        LET U == CleanupIssued
            T == cleanupTargets(mountPoints)
            visited == IF pc = "returned" THEN Len(T)
                       ELSE IF cleanupErr THEN cleanupIdx ELSE cleanupIdx - 1
            normal == SelectSeq(U, LAMBDA c : c.flag = "")
        IN  /\ \A k \in DOMAIN U :
                 /\ U[k].cmd = "umount"
                 /\ U[k].flag \in {"", "-l"}
                 /\ U[k].flag = "-l" =>
                       /\ k > 1
                       /\ U[k - 1].flag = ""
                       /\ U[k - 1].mp = U[k].mp
            /\ Len(normal) = visited
            /\ \A k \in DOMAIN normal : normal[k].mp = T[k]
            /\ (pc = "cleanup" /\ cleanupErr) =>
                   /\ U # << >>
                   /\ U[Len(U)].flag = ""
                   /\ U[Len(U)].mp = T[cleanupIdx]

\* C29: the state part above, and no step of cleanup, whether its unmount
\* succeeded or failed, changes the result Install returns or ends the
\* process; the lazy umount is issued only with the failure of the normal
\* one pending.
C29_CleanupNeverEscalates ==
    /\ []C29_NormalThenLazy
    /\ [][(scope = "install" /\ pc = "cleanup") =>
             /\ result' = result
             /\ exitCode' = exitCode
             /\ pc' \in {"cleanup", "returned"}
             /\ (Len(cmds') > Len(cmds) /\ cmds'[Len(cmds')].flag = "-l")
                    => cleanupErr]_vars

\* a successful run in which the normal umount of one mount point failed,
\* the lazy one followed, and cleanup went on to the next mount point
C29_Witness ==
    /\ scope = "install"
    /\ pc = "returned"
    /\ result.kind = "ok"
    /\ Len(mountPoints) >= 2
    /\ \E k \in DOMAIN CleanupIssued :
          /\ k + 2 <= Len(CleanupIssued)
          /\ CleanupIssued[k].flag = ""
          /\ CleanupIssued[k + 1].flag = "-l"
          /\ CleanupIssued[k + 1].mp = CleanupIssued[k].mp
          /\ CleanupIssued[k + 2].flag = ""
          /\ CleanupIssued[k + 2].mp # CleanupIssued[k].mp

\* the five unmounts a call of Partition begins with
InitialUnmounts == <<MNT_BOOT, MNT_DEV, MNT_PROC, MNT_SYS, MNT>>

\* setupPartitions calls Partition unless parsePartitions fails
PartitionIsCalled == ~parsePartitions(cfg.partitions).err

\* the step of the Partition Setup stage at which the call of Partition
\* begins: after the warning about a defaulted mode, if there is one
PartitionCallAt == IF ParsePartitionMode(cfg.mode).err THEN 2 ELSE 1

\* C30 (state part): the first commands of a call of Partition are
\* `umount -R` on /mnt/boot, /mnt/dev, /mnt/proc, /mnt/sys and /mnt, in that
\* order; until all five have been attempted the call has issued, checked
\* and returned nothing else, and it never ends before them.
C30_UnmountsComeFirst ==
    (scope = "partition" /\ pc \in {"run", "done", "exited"}
        /\ PartitionIsCalled) =>
        /\ \A k \in 1..Len(InitialUnmounts) :
              k <= Len(cmds) =>
                 /\ cmds[k].cmd = "umount"
                 /\ cmds[k].flag = "-R"
                 /\ cmds[k].mp = InitialUnmounts[k]
        /\ Len(cmds) < Len(InitialUnmounts) =>
              /\ pc = "run"
              /\ sp <= PartitionCallAt + Len(cmds)
              /\ sp >= PartitionCallAt => sp = PartitionCallAt + Len(cmds)
              /\ result = NoResult
              /\ fatal = NoFail
              /\ exitCode = NoExit
              /\ mountPoints = << >>

\* C30: the state part above, and each of the five unmounts, whether it
\* succeeded or failed, is followed by the next step of Partition: no
\* outcome ends the call, sets its result, logs a warning or changes the
\* steps that follow.
C30_CleanupAllFirst ==
    /\ []C30_UnmountsComeFirst
    /\ [][(scope = "partition" /\ pc = "run" /\ PartitionIsCalled
              /\ sp >= PartitionCallAt
              /\ sp < PartitionCallAt + Len(InitialUnmounts)) =>
             /\ pc' = "run"
             /\ sp' = sp + 1
             /\ Len(cmds') = Len(cmds) + 1
             /\ UNCHANGED <<result, fatal, warned, exitCode, prog,
                            mountPoints>>]_vars

\* a manual call that went through: with /mnt mounted beforehand the five
\* unmounts were attempted, then the work of the mode followed
C30_Witness ==
    /\ scope = "partition"
    /\ pc = "done"
    /\ result.kind = "ok"
    /\ ToLower(TrimSpace(cfg.mode)) = W_manual
    /\ Len(cmds) > Len(InitialUnmounts)
    /\ \A k \in DOMAIN InitialUnmounts :
          cmds[k].flag = "-R" /\ cmds[k].mp = InitialUnmounts[k]
    /\ \E k \in DOMAIN cmds : cmds[k].cmd = "mount" /\ cmds[k].mp = MNT

=============================================================================
